---------------------------- MODULE Spec2Model ----------------------------
(***************************************************************************)
(* A model of the rgba emulator core: the ARM7TDMI interpreter (register   *)
(* bank, decoder, executor, three-stage pipeline), the memory bus with its *)
(* devices, and the debugger shell that drives the machine through a       *)
(* mutex.                                                                  *)
(*                                                                         *)
(* A u32 is the pair <<hi, lo>> of its 16-bit halves: TLC's integers are   *)
(* 32-bit signed, so a u32 does not fit in one of them.                    *)
(***************************************************************************)
EXTENDS Integers, Sequences, FiniteSets, TLC

VARIABLES
    registers,              \* Interpreter.registers : RegisterBank
    fetched_instruction,    \* Interpreter.fetched_instruction : Option<(u32, u32)>
    decoded_instruction,    \* Interpreter.decoded_instruction : Option<Operation>
    bus,                    \* Gba.bus : Bus, with the devices behind it
    tickResult,             \* what the last tick returned (or that it panicked)
    lastExec,               \* what the last tick's execute step saw and did
    nTicks,                 \* ticks performed so far
    call,                   \* a direct call of Gba::emulate: its budget and progress
    nWrites,                \* register writes performed so far (register-bank runs)
    lastWrite,              \* the last of them: its index, mode and value
    probe,                  \* one operation called directly, as the unit tests call
                            \* it: its inputs and what it returned
    overflow_checks,        \* the build: TRUE panics on arithmetic overflow (debug),
                            \* FALSE wraps (release)
    emulation_running,      \* Application.emulation_running : AtomicBool
    mutex,                  \* Application.gba : Mutex<Gba> (holder, poisoned)
    tasks,                  \* the futures spawned by Task::perform
    ui                      \* the shell's update loop: what it is doing

vars == << registers, fetched_instruction, decoded_instruction, bus,
           tickResult, lastExec, nTicks, call, nWrites, lastWrite, probe,
           overflow_checks, emulation_running, mutex, tasks, ui >>

cpuVars == << registers, fetched_instruction, decoded_instruction, bus,
              tickResult, lastExec, nTicks >>

regVars == << nWrites, lastWrite >>

unitVars == << probe >>

shellVars == << emulation_running, mutex, tasks, ui >>

-----------------------------------------------------------------------------
(* Bounds of the model. *)

\* Register writes in a register-bank run.
MaxWrites == 2

\* Words at the start of the BIOS image that hold the program, all of them chosen
\* freely; the rest of the image is zero.
ProgWords == 2

\* Ticks in one run of the machine.
MaxTicks == 8

\* The largest finite cycle budget handed to Gba::emulate.
MaxBudget == 2

\* Buttons the user presses in one run of the shell.
MaxClicks == 3

-----------------------------------------------------------------------------
(* 32-bit words. *)

Half == 256 * 256

U32(hi, lo) == << hi, lo >>

Hi(w) == w[1]

Lo(w) == w[2]

\* n in 0 .. 2^31 - 1
N32(n) == << n \div Half, n % Half >>

Zero32 == << 0, 0 >>

Add32(a, b) ==
    LET lo == a[2] + b[2]
        hi == a[1] + b[1] + (lo \div Half)
    IN  << hi % Half, lo % Half >>

Sub32(a, b) ==
    LET lo == a[2] - b[2]
        borrow == IF lo < 0 THEN 1 ELSE 0
        hi == a[1] - b[1] - borrow
    IN  << hi % Half, lo % Half >>

\* a <= b, unsigned
Le32(a, b) == a[1] < b[1] \/ (a[1] = b[1] /\ a[2] <= b[2])

RECURSIVE And16(_, _, _)
And16(x, y, n) ==
    IF n = 0 THEN 0
    ELSE (IF x % 2 = 1 /\ y % 2 = 1 THEN 1 ELSE 0) + 2 * And16(x \div 2, y \div 2, n - 1)

RECURSIVE Or16(_, _, _)
Or16(x, y, n) ==
    IF n = 0 THEN 0
    ELSE (IF x % 2 = 1 \/ y % 2 = 1 THEN 1 ELSE 0) + 2 * Or16(x \div 2, y \div 2, n - 1)

RECURSIVE Xor16(_, _, _)
Xor16(x, y, n) ==
    IF n = 0 THEN 0
    ELSE (IF x % 2 # y % 2 THEN 1 ELSE 0) + 2 * Xor16(x \div 2, y \div 2, n - 1)

And32(a, b) == << And16(a[1], b[1], 16), And16(a[2], b[2], 16) >>

Or32(a, b) == << Or16(a[1], b[1], 16), Or16(a[2], b[2], 16) >>

Xor32(a, b) == << Xor16(a[1], b[1], 16), Xor16(a[2], b[2], 16) >>

Not32(a) == << 65535 - a[1], 65535 - a[2] >>

RECURSIVE Pow2(_)
Pow2(n) == IF n = 0 THEN 1 ELSE 2 * Pow2(n - 1)

\* bit i (0 .. 31) of w, as 0 or 1
Bit(w, i) == IF i < 16 THEN (w[2] \div Pow2(i)) % 2 ELSE (w[1] \div Pow2(i - 16)) % 2

BitSet(w, i) == Bit(w, i) = 1

\* w >> n, n in 0 .. 31 (logical)
Shr32(w, n) ==
    IF n = 0 THEN w
    ELSE IF n >= 16 THEN << 0, w[1] \div Pow2(n - 16) >>
    ELSE << w[1] \div Pow2(n), (w[2] \div Pow2(n)) + (w[1] % Pow2(n)) * Pow2(16 - n) >>

\* w << n, n in 0 .. 31, the bits shifted out dropped
Shl32(w, n) ==
    IF n = 0 THEN w
    ELSE IF n >= 16 THEN << (w[2] % Pow2(32 - n)) * Pow2(n - 16), 0 >>
    ELSE << (w[1] % Pow2(16 - n)) * Pow2(n) + (w[2] \div Pow2(16 - n)),
            (w[2] % Pow2(16 - n)) * Pow2(n) >>

\* the field of `width` bits of w that starts at bit `from`, as a number (width <= 16)
Field(w, from, width) == Lo(Shr32(w, from)) % Pow2(width)

\* u32::rotate_right
RotateRight32(w, n) ==
    LET k == n % 32
    IN  IF k = 0 THEN w ELSE Or32(Shr32(w, k), Shl32(w, 32 - k))

\* u32::rotate_left
RotateLeft32(w, n) == RotateRight32(w, (32 - (n % 32)) % 32)

\* i32 >> n for n in 0 .. 31 (arithmetic)
Sar32(w, n) ==
    IF ~BitSet(w, 31) \/ n = 0 THEN Shr32(w, n)
    ELSE Or32(Shr32(w, n), Shl32(<< 65535, 65535 >>, 32 - n))

-----------------------------------------------------------------------------
(* Status register: src/core/interpreter/status.rs *)

CpuModes == { "User", "Fiq", "Irq", "Supervisor", "Abort", "Undefined", "System" }

InstructionModes == { "Arm", "Thumb" }

\* CpuMode as u32 (the enum's discriminants)
CpuModeBits(mode) ==
    CASE mode = "User" -> 16
      [] mode = "Fiq" -> 17
      [] mode = "Irq" -> 18
      [] mode = "Supervisor" -> 19
      [] mode = "Abort" -> 23
      [] mode = "Undefined" -> 27
      [] mode = "System" -> 31

\* IRQ and Supervisor exchanged
CpuMode_from_u32_swapped(bits) ==
    CASE bits = 16 -> "User"
      [] bits = 17 -> "Fiq"
      [] bits = 18 -> "Supervisor"
      [] bits = 19 -> "Irq"
      [] bits = 23 -> "Abort"
      [] bits = 31 -> "System"
      [] OTHER -> "Undefined"

\* CpuMode::from_u32
CpuMode_from_u32(bits) ==
    CASE bits = 16 -> "User"
      [] bits = 17 -> "Fiq"
      [] bits = 18 -> "Irq"
      [] bits = 19 -> "Supervisor"
      [] bits = 23 -> "Abort"
      [] bits = 31 -> "System"
      [] OTHER -> "Undefined"

\* ProgramStatusRegister::default()
DefaultPsr ==
    [ signed |-> FALSE, zero |-> FALSE, carry |-> FALSE, overflow |-> FALSE,
      sticky_overflow |-> FALSE, irq_disable |-> FALSE, fiq_disable |-> FALSE,
      instruction_mode |-> "Arm", mode |-> "User" ]

B2N(b) == IF b THEN 1 ELSE 0

\* ProgramStatusRegister::to_u32
Psr_to_u32(p) ==
    << B2N(p.signed) * 32768 + B2N(p.zero) * 16384 + B2N(p.carry) * 8192
         + B2N(p.overflow) * 4096 + B2N(p.sticky_overflow) * 2048,
       B2N(p.irq_disable) * 128 + B2N(p.fiq_disable) * 64
         + (IF p.instruction_mode = "Thumb" THEN 32 ELSE 0) + CpuModeBits(p.mode) >>

\* ProgramStatusRegister::from_u32
Psr_from_u32(w) ==
    [ signed |-> BitSet(w, 31), zero |-> BitSet(w, 30), carry |-> BitSet(w, 29),
      overflow |-> BitSet(w, 28), sticky_overflow |-> BitSet(w, 27),
      irq_disable |-> BitSet(w, 7), fiq_disable |-> BitSet(w, 6),
      instruction_mode |-> IF BitSet(w, 5) THEN "Thumb" ELSE "Arm",
      mode |-> CpuMode_from_u32(Lo(w) % 32) ]

-----------------------------------------------------------------------------
(* Register bank: src/core/interpreter/register.rs *)

\* RegisterBank::default()
DefaultRegisterBank ==
    [ reg |-> [ i \in 0 .. 15 |-> Zero32 ],
      fiq_reg |-> [ i \in 0 .. 6 |-> Zero32 ],
      svc_reg |-> [ i \in 0 .. 1 |-> Zero32 ],
      abt_reg |-> [ i \in 0 .. 1 |-> Zero32 ],
      irq_reg |-> [ i \in 0 .. 1 |-> Zero32 ],
      und_reg |-> [ i \in 0 .. 1 |-> Zero32 ],
      spsr |-> [ i \in 0 .. 4 |->
                   [ DefaultPsr EXCEPT !.mode =
                       CASE i = 0 -> "Fiq" [] i = 1 -> "Supervisor" [] i = 2 -> "Irq"
                         [] i = 3 -> "Abort" [] i = 4 -> "Undefined" ] ],
      cpsr |-> DefaultPsr,
      pipeline_flush |-> FALSE ]

\* An index past the end of a bank array: the access panics.
OutOfBounds == << -1, 1 >>

\* The place reg_with_mode_mut(index, mode) borrows: << bank, index in the bank >>.
reg_with_mode_mut_irq_as_svc(index, mode) ==
    CASE mode \in { "User", "System" } -> << "reg", index >>
      [] mode = "Fiq" ->
            IF index < 8 \/ index = 15 THEN << "reg", index >> ELSE << "fiq_reg", index - 7 >>
      [] mode = "Supervisor" ->
            IF index # 13 /\ index # 14 THEN << "reg", index >> ELSE << "svc_reg", index - 13 >>
      [] mode = "Irq" ->
            IF index # 13 /\ index # 14 THEN << "reg", index >> ELSE << "svc_reg", index - 13 >>
      [] mode = "Abort" ->
            IF index # 13 /\ index # 14 THEN << "reg", index >> ELSE << "abt_reg", index - 13 >>
      [] mode = "Undefined" ->
            IF index # 13 /\ index # 14 THEN << "reg", index >> ELSE << "und_reg", index - 13 >>

reg_with_mode_mut(index, mode) ==
    CASE mode \in { "User", "System" } -> << "reg", index >>
      [] mode = "Fiq" ->
            IF index < 8 \/ index = 15 THEN << "reg", index >> ELSE << "fiq_reg", index - 7 >>
      [] mode = "Supervisor" ->
            IF index # 13 /\ index # 14 THEN << "reg", index >> ELSE << "svc_reg", index - 13 >>
      [] mode = "Irq" ->
            IF index # 13 /\ index # 14 THEN << "reg", index >> ELSE << "irq_reg", index - 13 >>
      [] mode = "Abort" ->
            IF index # 13 /\ index # 14 THEN << "reg", index >> ELSE << "abt_reg", index - 13 >>
      [] mode = "Undefined" ->
            IF index # 13 /\ index # 14 THEN << "reg", index >> ELSE << "und_reg", index - 13 >>

\* Whether the borrowed place exists (Rust checks the index against the array).
SlotInBounds(R, slot) == slot[2] \in DOMAIN R[slot[1]]

\* *place = value
StoreSlot(R, slot, value) ==
    CASE slot[1] = "reg" -> [ R EXCEPT !.reg[slot[2]] = value ]
      [] slot[1] = "fiq_reg" -> [ R EXCEPT !.fiq_reg[slot[2]] = value ]
      [] slot[1] = "svc_reg" -> [ R EXCEPT !.svc_reg[slot[2]] = value ]
      [] slot[1] = "abt_reg" -> [ R EXCEPT !.abt_reg[slot[2]] = value ]
      [] slot[1] = "irq_reg" -> [ R EXCEPT !.irq_reg[slot[2]] = value ]
      [] slot[1] = "und_reg" -> [ R EXCEPT !.und_reg[slot[2]] = value ]

\* self.<bank>[i], a panic when i is past the end
BankRead(bank, i) == IF i \in DOMAIN bank THEN bank[i] ELSE OutOfBounds

\* RegisterBank::reg_with_mode
reg_with_mode_fiq_low(R, index, mode) ==
    CASE mode \in { "User", "System" } -> R.reg[index]
      [] mode = "Fiq" ->
            IF index < 7 \/ index = 15 THEN R.reg[index] ELSE BankRead(R.fiq_reg, index - 7)
      [] mode = "Supervisor" ->
            IF index # 13 /\ index # 14 THEN R.reg[index] ELSE BankRead(R.svc_reg, index - 13)
      [] mode = "Irq" ->
            IF index # 13 /\ index # 14 THEN R.reg[index] ELSE BankRead(R.irq_reg, index - 13)
      [] mode = "Abort" ->
            IF index # 13 /\ index # 14 THEN R.reg[index] ELSE BankRead(R.abt_reg, index - 13)
      [] mode = "Undefined" ->
            IF index # 13 /\ index # 14 THEN R.reg[index] ELSE BankRead(R.und_reg, index - 13)

reg_with_mode(R, index, mode) ==
    CASE mode \in { "User", "System" } -> R.reg[index]
      [] mode = "Fiq" ->
            IF index < 8 \/ index = 15 THEN R.reg[index] ELSE BankRead(R.fiq_reg, index - 7)
      [] mode = "Supervisor" ->
            IF index # 13 /\ index # 14 THEN R.reg[index] ELSE BankRead(R.svc_reg, index - 13)
      [] mode = "Irq" ->
            IF index # 13 /\ index # 14 THEN R.reg[index] ELSE BankRead(R.irq_reg, index - 13)
      [] mode = "Abort" ->
            IF index # 13 /\ index # 14 THEN R.reg[index] ELSE BankRead(R.abt_reg, index - 13)
      [] mode = "Undefined" ->
            IF index # 13 /\ index # 14 THEN R.reg[index] ELSE BankRead(R.und_reg, index - 13)

\* RegisterBank::reg
reg(R, index) == reg_with_mode(R, index, R.cpsr.mode)

\* RegisterBank::pc
pc(R) == reg(R, 15)

-----------------------------------------------------------------------------
(* Bus and devices: src/core/bus.rs, bios.rs, memory/wram.rs,               *)
(* memory/system_io.rs, lcd/mod.rs, and the memory map of Gba::new.         *)

\* Bios: an image of 0x4000 bytes, of which M.bios holds the first 4 * ProgWords;
\* the others are 0.
BiosRead(image, address) ==
    IF address[2] + 1 \in DOMAIN image THEN image[address[2] + 1] ELSE 0

\* The bytes of a word, least significant first.
BytesOf(w) == << w[2] % 256, w[2] \div 256, w[1] % 256, w[1] \div 256 >>

\* Gba::new: the registered regions, in registration order.
Regions ==
    << [ first |-> << 0, 0 >>,     last |-> << 0, 16383 >>,     device |-> "bios" ],
       [ first |-> << 1024, 0 >>,  last |-> << 1024, 86 >>,     device |-> "lcd" ],
       [ first |-> << 1024, 512 >>, last |-> << 1136, 0 >>,     device |-> "sysio" ],
       [ first |-> << 768, 0 >>,   last |-> << 1023, 65535 >>,  device |-> "wram_on" ],
       [ first |-> << 2048, 0 >>,  last |-> << 4095, 65535 >>,  device |-> "wram_ext" ] >>

\* RangeInclusive::contains
RegionContains(r, address) == Le32(r.first, address) /\ Le32(address, r.last)

\* A scan that stops at the last region that contains the address
FindRegionLast(regions, address, i) ==
    LET hits == { j \in i .. Len(regions) : RegionContains(regions[j], address) }
    IN  IF hits = {} THEN 0 ELSE CHOOSE j \in hits : \A k \in hits : k <= j

RECURSIVE FindRegionFrom(_, _, _)
\* for mapping in &self.regions { if mapping.region.contains(&address) { return ... } },
\* from the i-th mapping on: the index of the mapping that returns (0: none)
FindRegionFrom(regions, address, i) ==
    IF i > Len(regions) THEN 0
    ELSE IF RegionContains(regions[i], address) THEN i
    ELSE FindRegionFrom(regions, address, i + 1)

\* The first registered region of Gba::new that contains the address (0: none).
FindRegion(address) == FindRegionFrom(Regions, address, 1)

\* A fault that does not carry the address
InvalidRegionNoAddress(address) == << "InvalidRegion", Zero32 >>

InvalidRegion(address) == << "InvalidRegion", address >>

OpcodeNotImplemented(raw) == << "OpcodeNotImplemented", raw >>

\* A sparse byte array: the bytes that are not 0.
SparseRead(m, off) == IF off \in DOMAIN m THEN m[off] ELSE 0

SparseWrite(m, off, data) ==
    IF data = 0
    THEN [ o \in (DOMAIN m) \ { off } |-> m[o] ]
    ELSE [ o \in (DOMAIN m) \cup { off } |-> IF o = off THEN data ELSE m[o] ]

\* Wram::virtual_address, for the on-chip RAM (0x3000000, 0x8000 bytes) and the
\* external RAM (0x8000000, 0x8000000 bytes); the offset fits in 31 bits.
WramOnOffset(address) == ((address[1] - 768) * Half + address[2]) % 32768

WramExtOffset(address) == (address[1] - 2048) * Half + address[2]

\* Addressable::read_byte of the device
DeviceRead(M, device, address) ==
    CASE device = "bios" -> BiosRead(M.bios, address)
      [] device = "lcd" -> 0
      [] device = "sysio" ->
            IF address = << 1024, 520 >> THEN B2N(M.interrupt_master_enable)
            ELSE IF address = << 1024, 768 >> THEN B2N(M.post_boot)
            ELSE 0
      [] device = "wram_on" -> SparseRead(M.wram_on, WramOnOffset(address))
      [] device = "wram_ext" -> SparseRead(M.wram_ext, WramExtOffset(address))

\* A BIOS that takes the write
DeviceWriteBiosWritable(M, device, address, data) ==
    IF address[2] + 1 \in DOMAIN M.bios
    THEN [ ok |-> TRUE, M |-> [ M EXCEPT !.bios[address[2] + 1] = data ] ]
    ELSE [ ok |-> TRUE, M |-> M ]

\* Addressable::write_byte of the device: [ok, M] or [ok, err, M]
DeviceWrite(M, device, address, data) ==
    CASE device = "bios" -> [ ok |-> FALSE, err |-> InvalidRegion(address), M |-> M ]
      [] device = "lcd" -> [ ok |-> TRUE, M |-> M ]
      [] device = "sysio" ->
            IF address = << 1024, 520 >>
            THEN [ ok |-> TRUE, M |-> [ M EXCEPT !.interrupt_master_enable = data > 0 ] ]
            ELSE IF address = << 1024, 768 >>
            THEN [ ok |-> TRUE, M |-> [ M EXCEPT !.post_boot = data > 0 ] ]
            ELSE [ ok |-> FALSE, err |-> InvalidRegion(address), M |-> M ]
      [] device = "wram_on" ->
            [ ok |-> TRUE,
              M |-> [ M EXCEPT !.wram_on = SparseWrite(@, WramOnOffset(address), data) ] ]
      [] device = "wram_ext" ->
            [ ok |-> TRUE,
              M |-> [ M EXCEPT !.wram_ext = SparseWrite(@, WramExtOffset(address), data) ] ]

\* Bus::read_byte: [ok, v] or [ok, err]
read_byte(M, address) ==
    LET i == FindRegion(address)
    IN  IF i = 0 THEN [ ok |-> FALSE, err |-> InvalidRegion(address) ]
        ELSE [ ok |-> TRUE, v |-> DeviceRead(M, Regions[i].device, address) ]

\* Bus::write_byte: [ok, M] or [ok, err, M]
write_byte(M, address, data) ==
    LET i == FindRegion(address)
    IN  IF i = 0 THEN [ ok |-> FALSE, err |-> InvalidRegion(address), M |-> M ]
        ELSE DeviceWrite(M, Regions[i].device, address, data)

\* low | high << 8 of two reads, the fault of the first that failed otherwise
ReadPair(low, high, scale) ==
    IF ~low.ok THEN low
    ELSE IF ~high.ok THEN high
    ELSE [ ok |-> TRUE, v |-> low.v + scale * high.v ]

\* Bus::read_word (16 bits): [ok, v] or [ok, err]
read_word(M, address) ==
    ReadPair(read_byte(M, address), read_byte(M, Add32(address, N32(1))), 256)

\* The two halves of a dword as a word, the fault of the first that failed otherwise
ReadHalves(low, high) ==
    IF ~low.ok THEN low
    ELSE IF ~high.ok THEN high
    ELSE [ ok |-> TRUE, v |-> << high.v, low.v >> ]

\* Bus::read_dword (32 bits): [ok, v] or [ok, err]
read_dword(M, address) ==
    ReadHalves(read_word(M, address), read_word(M, Add32(address, N32(2))))

\* self.write_byte(address + 1, ...) after the `?` on the first write
WriteSecondByte(first, address, data) ==
    IF ~first.ok THEN first ELSE write_byte(first.M, address, data)

\* The high byte first
write_word_big_endian(M, address, data) ==
    WriteSecondByte(write_byte(M, address, data \div 256), Add32(address, N32(1)),
                    data % 256)

\* Bus::write_word: the second byte is not written when the first faults
write_word(M, address, data) ==
    WriteSecondByte(write_byte(M, address, data % 256), Add32(address, N32(1)),
                    data \div 256)

\* self.write_word(address + 2, ...) after the `?` on the first write
WriteSecondWord(first, address, data) ==
    IF ~first.ok THEN first ELSE write_word(first.M, address, data)

\* Bus::write_dword
write_dword(M, address, data) ==
    WriteSecondWord(write_word(M, address, data[2]), Add32(address, N32(2)), data[1])

-----------------------------------------------------------------------------
(* Arithmetic as the build does it: with overflow checks an overflowing    *)
(* +, -, << or >> panics, without them it wraps (a shift amount wraps      *)
(* modulo 32).                                                             *)

\* The marker a panicking computation yields in place of a word
ArithPanic == << -1, 0 >>

IsPanic(v) == v[1] < 0

AddOverflows(a, b) == a[1] + b[1] + ((a[2] + b[2]) \div Half) >= Half

\* a + b on u32
CheckedAdd(a, b) == IF overflow_checks /\ AddOverflows(a, b) THEN ArithPanic ELSE Add32(a, b)

\* a - b on u32
CheckedSub(a, b) == IF overflow_checks /\ ~Le32(b, a) THEN ArithPanic ELSE Sub32(a, b)

AmountGe32(amount) == amount[1] > 0 \/ amount[2] >= 32

\* w << amount on u32
CheckedShl(w, amount) ==
    IF AmountGe32(amount)
    THEN (IF overflow_checks THEN ArithPanic ELSE Shl32(w, amount[2] % 32))
    ELSE Shl32(w, amount[2])

\* w >> amount on u32
CheckedShr(w, amount) ==
    IF AmountGe32(amount)
    THEN (IF overflow_checks THEN ArithPanic ELSE Shr32(w, amount[2] % 32))
    ELSE Shr32(w, amount[2])

\* (w as i32) >> amount
CheckedSar(w, amount) ==
    IF AmountGe32(amount)
    THEN (IF overflow_checks THEN ArithPanic ELSE Sar32(w, amount[2] % 32))
    ELSE Sar32(w, amount[2])

\* u32::overflowing_add: << result, overflowed >>
overflowing_add(a, b) == << Add32(a, b), AddOverflows(a, b) >>

\* u32::overflowing_sub: << result, overflowed >>
overflowing_sub(a, b) == << Sub32(a, b), ~Le32(b, a) >>

-----------------------------------------------------------------------------
(* Barrel shifter: src/core/interpreter/shift.rs *)

\* ShiftType::from_u32
ShiftType_from_u32(value) ==
    CASE value % 4 = 0 -> "LogicalLeft"
      [] value % 4 = 1 -> "LogicalRight"
      [] value % 4 = 2 -> "ArithmeticRight"
      [] value % 4 = 3 -> "RotateRight"

\* (operand & (1 << shift_amount - 1)) > 0, for shift_amount > 0: [panic, carry]
LastBitOut(operand, shift_amount) ==
    LET mask == CheckedShl(N32(1), Sub32(shift_amount, N32(1)))
    IN  IF IsPanic(mask) THEN [ panic |-> TRUE ]
        ELSE [ panic |-> FALSE, carry |-> And32(operand, mask) # Zero32 ]

\* The pair (value, carry) a shift returns, unless computing either panicked
ShiftResult(value, c) ==
    IF IsPanic(value) \/ c.panic THEN [ panic |-> TRUE ]
    ELSE [ panic |-> FALSE, value |-> value, carry |-> c.carry ]

\* ShiftType::shift: [panic, value, carry]
ShiftType_shift(shift_type, operand, shift_amount, old_carry) ==
    LET amount32 == IF shift_amount # Zero32 THEN shift_amount ELSE N32(32)
    IN  CASE shift_type = "LogicalLeft" ->
                LET shifted == CheckedShl(operand, Sub32(shift_amount, N32(1)))
                    c == IF shift_amount # Zero32
                         THEN (IF IsPanic(shifted) THEN [ panic |-> TRUE ]
                               ELSE [ panic |-> FALSE, carry |-> BitSet(shifted, 31) ])
                         ELSE [ panic |-> FALSE, carry |-> FALSE ]
                IN  IF c.panic THEN [ panic |-> TRUE ]
                    ELSE ShiftResult(CheckedShl(operand, shift_amount), c)
          [] shift_type = "LogicalRight" ->
                ShiftResult(CheckedShr(operand, amount32), LastBitOut(operand, amount32))
          [] shift_type = "ArithmeticRight" ->
                ShiftResult(CheckedSar(operand, amount32), LastBitOut(operand, amount32))
          [] shift_type = "RotateRight" ->
                IF shift_amount # Zero32
                THEN ShiftResult(RotateRight32(operand, shift_amount[2] % 32),
                                 LastBitOut(operand, shift_amount))
                ELSE [ panic |-> FALSE,
                       value |-> Or32(RotateRight32(operand, 1),
                                      IF old_carry THEN << 32768, 0 >> ELSE Zero32),
                       carry |-> Lo(operand) % 2 = 1 ]

\* Shift::from_opcode
Shift_from_opcode(opcode) ==
    IF BitSet(opcode, 4)
    THEN [ t |-> "Register", base_register |-> Field(opcode, 0, 4),
           shift_register |-> Field(opcode, 8, 4),
           shift_type |-> ShiftType_from_u32(Field(opcode, 5, 2)) ]
    ELSE [ t |-> "Immediate", base_register |-> Field(opcode, 0, 4),
           shift_amount |-> Field(opcode, 7, 5),
           shift_type |-> ShiftType_from_u32(Field(opcode, 5, 2)) ]

\* ImmediateShift::shift and RegisterShift::shift: [panic, value, carry]
Shift_shift(shift, R) ==
    LET operand == reg(R, shift.base_register)
        amount == IF shift.t = "Immediate" THEN N32(shift.shift_amount)
                  ELSE reg(R, shift.shift_register)
    IN  IF IsPanic(operand) \/ IsPanic(amount) THEN [ panic |-> TRUE ]
        ELSE ShiftType_shift(shift.shift_type, operand, amount, R.cpsr.carry)

\* rotated_immediate
rotated_immediate(opcode) ==
    RotateRight32(N32(Field(opcode, 0, 8)), 2 * Field(opcode, 8, 4))

\* Operand::value: the operand's value when the instruction executes
\* [panic, value]
Operand_value(operand, R) ==
    CASE operand.t = "Immediate" -> [ panic |-> FALSE, value |-> operand.value ]
      [] operand.t = "Register" ->
            LET v == reg(R, operand.index)
            IN  IF IsPanic(v) THEN [ panic |-> TRUE ] ELSE [ panic |-> FALSE, value |-> v ]
      [] operand.t = "RegisterShifted" ->
            LET sh == Shift_shift(operand.shift, R)
            IN  IF sh.panic THEN [ panic |-> TRUE ] ELSE [ panic |-> FALSE, value |-> sh.value ]

\* The operand the ARM decoders build from bits 11-0 of a register-form opcode:
\* a shift by an immediate amount is evaluated when the instruction is decoded.
\* [panic, operand]
DecodeShiftOperand(opcode, R) ==
    LET shift == Shift_from_opcode(opcode)
    IN  IF shift.t = "Immediate"
        THEN LET sh == Shift_shift(shift, R)
             IN  IF sh.panic THEN [ panic |-> TRUE ]
                 ELSE [ panic |-> FALSE,
                        operand |-> [ t |-> "Immediate", value |-> sh.value ] ]
        ELSE [ panic |-> FALSE, operand |-> [ t |-> "RegisterShifted", shift |-> shift ] ]

-----------------------------------------------------------------------------
(* Encoding masks and formats, one record for each source file that       *)
(* declares them; a word is << high half, low half >>.                     *)

\* src/core/interpreter/arm/branch.rs
arm_branch ==
    [ BRANCH_MASK |-> << 3584, 0 >>,
      BRANCH_FORMAT |-> << 2560, 0 >>,
      BRANCH_AND_EXCHANGE_MASK |-> << 4095, 65520 >>,
      BRANCH_AND_EXCHANGE_FORMAT |-> << 303, 65296 >> ]

\* src/core/interpreter/interrupt.rs
arm_interrupt ==
    [ SOFTWARE_INTERRUPT_MASK |-> << 3840, 0 >>,
      SOFTWARE_INTERRUPT_FORMAT |-> << 3840, 0 >> ]

\* src/core/interpreter/arm/transfer.rs
arm_transfer ==
    [ SINGLE_TRANSFER_MASK |-> << 3072, 0 >>,
      SINGLE_TRANSFER_FORMAT |-> << 1024, 0 >>,
      BLOCK_TRANSFER_MASK |-> << 3584, 0 >>,
      BLOCK_TRANSFER_FORMAT |-> << 2048, 0 >>,
      PSR_TRANSFER_MRS_MASK |-> << 4031, 0 >>,
      PSR_TRANSFER_MRS_FORMAT |-> << 271, 0 >>,
      PSR_TRANSFER_MSR_MASK |-> << 3504, 61440 >>,
      PSR_TRANSFER_MSR_FORMAT |-> << 288, 61440 >>,
      SINGLE_DATA_SWAP_MASK |-> << 3968, 4080 >>,
      SINGLE_DATA_SWAP_FORMAT |-> << 256, 144 >> ]

\* src/core/interpreter/multiply.rs
arm_multiply ==
    [ MULTIPLY_MASK |-> << 3968, 240 >>,
      MULTIPLY_FORMAT |-> << 0, 144 >>,
      MULTIPLY_LONG_FORMAT |-> << 128, 144 >> ]

\* the halfword transfer encoding (ARM7TDMI data sheet; its constants are not in the sources)
arm_halfword ==
    [ HALFWORD_DATA_TRANSFER_REG_MASK |-> << 3648, 3984 >>,
      HALFWORD_DATA_TRANSFER_REG_FORMAT |-> << 0, 144 >> ]

\* src/core/interpreter/arm/arithmetic.rs
arm_arithmetic ==
    [ DATA_PROCESSING_MASK |-> << 3072, 0 >>,
      DATA_PROCESSING_FORMAT |-> << 0, 0 >> ]

\* src/core/interpreter/thumb/branch.rs
thumb_branch ==
    [ UNCONDITIONAL_BRANCH_MASK |-> << 0, 63488 >>,
      UNCONDITIONAL_BRANCH_FORMAT |-> << 0, 57344 >>,
      CONDITIONAL_BRANCH_MASK |-> << 0, 61440 >>,
      CONDITIONAL_BRANCH_FORMAT |-> << 0, 53248 >>,
      HI_REGISTER_OPERATIONS_BRANCH_EXCHANGE_MASK |-> << 0, 64512 >>,
      HI_REGISTER_OPERATIONS_BRANCH_EXCHANGE_FORMAT |-> << 0, 17408 >>,
      LONG_BRANCH_WITH_LINK_MASK |-> << 0, 61440 >>,
      LONG_BRANCH_WITH_LINK_FORMAT |-> << 0, 61440 >> ]

\* src/core/interpreter/thumb/alu.rs
thumb_alu ==
    [ MOVE_COMPARE_ADD_SUBTRACT_IMMEDIATE_MASK |-> << 0, 57344 >>,
      MOVE_COMPARE_ADD_SUBTRACT_IMMEDIATE_FORMAT |-> << 0, 8192 >>,
      ADD_SUBTRACT_MASK |-> << 0, 63488 >>,
      ADD_SUBTRACT_FORMAT |-> << 0, 6144 >>,
      ALU_OPERATION_MASK |-> << 0, 64512 >>,
      ALU_OPERATION_FORMAT |-> << 0, 16384 >>,
      MOVE_SHIFTED_REGISTER_MASK |-> << 0, 57344 >>,
      MOVE_SHIFTED_REGISTER_FORMAT |-> << 0, 0 >> ]

\* src/core/interpreter/thumb/load.rs
thumb_load ==
    [ LOAD_STORE_WITH_REGISTER_OFFSET_MASK |-> << 0, 61952 >>,
      LOAD_STORE_WITH_REGISTER_OFFSET_FORMAT |-> << 0, 20480 >>,
      PC_RELATIVE_LOAD_MASK |-> << 0, 63488 >>,
      PC_RELATIVE_LOAD_FORMAT |-> << 0, 18432 >>,
      SP_RELATIVE_LOAD_STORE_MASK |-> << 0, 61440 >>,
      SP_RELATIVE_LOAD_STORE_FORMAT |-> << 0, 36864 >>,
      LOAD_STORE_HALFWORD_MASK |-> << 0, 61440 >>,
      LOAD_STORE_HALFWORD_FORMAT |-> << 0, 32768 >>,
      LOAD_STORE_SIGN_EXT_BYTE_HALFWORD_MASK |-> << 0, 61952 >>,
      LOAD_STORE_SIGN_EXT_BYTE_HALFWORD_FORMAT |-> << 0, 20992 >> ]

\* src/core/interpreter/thumb/stack.rs
thumb_stack ==
    [ PUSH_POP_REGISTERS_MASK |-> << 0, 62976 >>,
      PUSH_POP_REGISTERS_FORMAT |-> << 0, 46080 >>,
      ADD_OFFSET_TO_STACK_POINTER_MASK |-> << 0, 65280 >>,
      ADD_OFFSET_TO_STACK_POINTER_FORMAT |-> << 0, 45056 >> ]

\* the Thumb encodings whose constants are not in the sources (ARM7TDMI data sheet, formats 17, 13 low, 12, 9)
thumb_other ==
    [ SOFTWARE_INTERRUPT_MASK |-> << 0, 65280 >>,
      SOFTWARE_INTERRUPT_FORMAT |-> << 0, 57088 >>,
      MULTIPLE_LOAD_STORE_MASK |-> << 0, 61440 >>,
      MULTIPLE_LOAD_STORE_FORMAT |-> << 0, 49152 >>,
      LOAD_ADDRESS_MASK |-> << 0, 61440 >>,
      LOAD_ADDRESS_FORMAT |-> << 0, 40960 >>,
      LOAD_STORE_WITH_IMMEDIATE_OFFSET_MASK |-> << 0, 57344 >>,
      LOAD_STORE_WITH_IMMEDIATE_OFFSET_FORMAT |-> << 0, 24576 >> ]

\* (opcode & mask) == format
Matches(opcode, mask, format) == And32(opcode, mask) = format

-----------------------------------------------------------------------------
(* Decoded instruction records.  An Option is a sequence of length 0 or 1. *)
(* A decoder that panics yields DecodePanic.                               *)

None == << >>

Some(x) == << x >>

DecodePanic == [ kind |-> "panic" ]

Immediate(value) == [ t |-> "Immediate", value |-> value ]

Register(index) == [ t |-> "Register", index |-> index ]

RegisterShifted(shift) == [ t |-> "RegisterShifted", shift |-> shift ]

\* x as i8 as i32, for a byte x
SignExtend8(x) == IF x >= 128 THEN << 65535, 65280 + x >> ELSE << 0, x >>

\* BranchInstruction::new
BranchInstruction(link, offset) == [ kind |-> "Branch", link |-> link, offset |-> offset ]

\* BranchInstruction::decode
BranchInstruction_decode(R, opcode) ==
    BranchInstruction(IF BitSet(opcode, 24) THEN Some(pc(R)) ELSE None,
                      Sar32(Shl32(And32(opcode, << 255, 65535 >>), 10), 8))

\* BranchAndExchangeInstruction::new
BranchAndExchangeInstruction(target_register) ==
    [ kind |-> "BranchAndExchange", target_register |-> target_register ]

\* BranchAndExchangeInstruction::decode
BranchAndExchangeInstruction_decode(opcode) ==
    BranchAndExchangeInstruction(Field(opcode, 0, 4))

\* SoftwareInterruptInstruction::decode
SoftwareInterruptInstruction_decode(R, opcode) ==
    [ kind |-> "SoftwareInterrupt", past_address |-> pc(R),
      comment |-> And32(opcode, << 255, 65535 >>) ]

DataProcessingOperations ==
    << "And", "ExclusiveOr", "Subtract", "ReverseSubtract", "Add", "AddWithCarry",
       "SubtractWithCarry", "ReverseSubtractWithCarry", "Test", "TestEqual", "Compare",
       "CompareNegate", "Or", "Move", "AndNot", "MoveNegate" >>

\* DataProcessingInstruction::new
DataProcessingInstruction(update_conditions, source_register_index, operand, destination_register_index, operation) ==
    [ kind |-> "DataProcessing", update_conditions |-> update_conditions,
      source_register_index |-> source_register_index, operand |-> operand,
      destination_register_index |-> destination_register_index,
      operation |-> operation ]

\* DataProcessingInstruction::decode
DataProcessingInstruction_decode(R, opcode) ==
    LET shifted == DecodeShiftOperand(opcode, R)
        operation == DataProcessingOperations[Field(opcode, 21, 4) + 1]
    IN  IF ~BitSet(opcode, 25) /\ shifted.panic THEN DecodePanic
        ELSE DataProcessingInstruction(
                 BitSet(opcode, 20),
                 Field(opcode, 16, 4),
                 IF BitSet(opcode, 25) THEN Immediate(rotated_immediate(opcode))
                 ELSE shifted.operand,
                 IF operation \notin { "Test", "TestEqual", "Compare", "CompareNegate" }
                 THEN Some(Field(opcode, 12, 4)) ELSE None,
                 operation)

\* SingleDataTransferInstruction::new
SingleDataTransferInstruction(source_register_index, base_register_index, offset, load, write_back, byte_transfer, up, pre_index, force_word_alignment) ==
    [ kind |-> "SingleDataTransfer", source_register_index |-> source_register_index,
      base_register_index |-> base_register_index, offset |-> offset, load |-> load,
      write_back |-> write_back, byte_transfer |-> byte_transfer, up |-> up,
      pre_index |-> pre_index, force_word_alignment |-> force_word_alignment ]

\* SingleDataTransferInstruction::decode
SingleDataTransferInstruction_decode(R, opcode) ==
    LET shifted == DecodeShiftOperand(opcode, R)
    IN  IF BitSet(opcode, 25) /\ shifted.panic THEN DecodePanic
        ELSE SingleDataTransferInstruction(
                 Field(opcode, 12, 4), Field(opcode, 16, 4),
                 IF BitSet(opcode, 25) THEN shifted.operand
                 ELSE Immediate(And32(opcode, << 0, 4095 >>)),
                 BitSet(opcode, 20), BitSet(opcode, 21), BitSet(opcode, 22),
                 BitSet(opcode, 23), BitSet(opcode, 24), FALSE)

\* BlockDataTransferInstruction::new
BlockDataTransferInstruction(base_register_index, register_list, load, write_back, increment, pre_index, psr_and_force_user, number_of_registers) ==
    [ kind |-> "BlockDataTransfer", base_register_index |-> base_register_index,
      registers |-> register_list, load |-> load, write_back |-> write_back,
      increment |-> increment, pre_index |-> pre_index,
      psr_and_force_user |-> psr_and_force_user,
      number_of_registers |-> number_of_registers ]

\* BlockDataTransferInstruction::decode; the register list is the set of its indices
BlockDataTransferInstruction_decode(opcode) ==
    LET register_list == { i \in 0 .. 15 : BitSet(opcode, i) }
    IN  BlockDataTransferInstruction(
            Field(opcode, 16, 4), register_list, BitSet(opcode, 20), BitSet(opcode, 21),
            BitSet(opcode, 23), BitSet(opcode, 24), BitSet(opcode, 22),
            Cardinality(register_list))

\* PsrTransferMrsInstruction::decode
PsrTransferMrsInstruction_decode(opcode) ==
    [ kind |-> "PsrTransferMrs", destination_register_index |-> Field(opcode, 12, 4),
      use_spsr |-> BitSet(opcode, 22) ]

\* PsrTransferMsrInstruction::decode
PsrTransferMsrInstruction_decode(R, opcode) ==
    LET shifted == DecodeShiftOperand(opcode, R)
    IN  IF ~BitSet(opcode, 25) /\ shifted.panic THEN DecodePanic
        ELSE [ kind |-> "PsrTransferMsr",
               operand |-> IF BitSet(opcode, 25)
                           THEN Immediate(And32(opcode, << 0, 4095 >>))
                           ELSE shifted.operand,
               use_spsr |-> BitSet(opcode, 22), write_flags |-> BitSet(opcode, 19),
               write_control |-> BitSet(opcode, 16) ]

\* SingleDataSwapInstruction::decode
SingleDataSwapInstruction_decode(opcode) ==
    [ kind |-> "SingleDataSwap", source_register_index |-> Field(opcode, 0, 4),
      destination_register_index |-> Field(opcode, 12, 4),
      base_register_index |-> Field(opcode, 16, 4), byte_transfer |-> BitSet(opcode, 22) ]

\* HalfwordDataTransferRegInstruction::new
HalfwordDataTransferRegInstruction(a, b, c, d, e, f, rb, offset, rd) ==
    [ kind |-> "HalfwordDataTransfer", flags |-> << a, b, c, d, e, f >>,
      base_register_index |-> rb, offset |-> offset, source_register_index |-> rd ]

\* HalfwordDataTransferRegInstruction::decode
HalfwordDataTransferRegInstruction_decode(opcode) ==
    [ kind |-> "HalfwordDataTransfer", opcode |-> opcode ]

\* LongBranchWithLinkInstruction::decode
LongBranchWithLinkInstruction_decode(opcode) ==
    [ kind |-> "LongBranchWithLink", offset |-> Field(opcode, 0, 11),
      h |-> BitSet(opcode, 11) ]

-----------------------------------------------------------------------------
(* Thumb decoders: each lowers a halfword to one of the records above. *)

\* thumb::decode_conditional_branch
decode_conditional_branch(opcode) ==
    BranchInstruction(None, Sub32(SignExtend8(Field(opcode, 0, 8)), N32(4)))

\* thumb::decode_hi_reg_branch_exchange
decode_hi_reg_branch_exchange(opcode) ==
    LET op == Field(opcode, 8, 2)
        rs == Field(opcode, 3, 4)
        rd == Lo(Or32(N32(Field(opcode, 0, 3)), N32(Field(opcode, 7, 1))))
    IN  CASE op = 0 -> DataProcessingInstruction(FALSE, rs, Register(rd), Some(rd), "Add")
          [] op = 1 -> DataProcessingInstruction(TRUE, rs, Register(rd), None, "Compare")
          [] op = 2 -> DataProcessingInstruction(FALSE, rs, Register(rd), Some(rd), "Move")
          [] op = 3 -> BranchAndExchangeInstruction(rs)

\* thumb::decode_mcas_immediate
decode_mcas_immediate(opcode) ==
    LET operation == Field(opcode, 11, 2)
        rd == Field(opcode, 8, 3)
        imm8 == Immediate(N32(Field(opcode, 0, 8)))
    IN  CASE operation = 0 -> DataProcessingInstruction(FALSE, rd, imm8, Some(rd), "Move")
          [] operation = 1 -> DataProcessingInstruction(FALSE, rd, imm8, None, "Compare")
          [] operation = 2 -> DataProcessingInstruction(FALSE, rd, imm8, Some(rd), "Add")
          [] operation = 3 ->
                DataProcessingInstruction(FALSE, rd, imm8, Some(rd), "Subtract")

\* thumb::decode_add_subtract
decode_add_subtract(opcode) ==
    LET operation == BitSet(opcode, 9)
        rd == Field(opcode, 0, 3)
        rs == Field(opcode, 3, 2)
        rn == Field(opcode, 6, 3)
        operand == IF BitSet(opcode, 10) THEN Immediate(N32(rn)) ELSE Register(rn)
    IN  DataProcessingInstruction(TRUE, rs, operand, Some(rd),
                                  IF operation THEN "Subtract" ELSE "Add")

\* thumb::decode_alu_operations
decode_alu_operations(opcode) ==
    LET operation == Field(opcode, 6, 4)
        rs == Field(opcode, 3, 3)
        rd == Field(opcode, 0, 3)
        ByRegister(shift_type) ==
            RegisterShifted([ t |-> "Register", base_register |-> rd,
                              shift_register |-> rs, shift_type |-> shift_type ])
        op_operand ==
            CASE operation = 0 -> << "And", Register(rs) >>
              [] operation = 1 -> << "ExclusiveOr", Register(rs) >>
              [] operation = 2 -> << "Move", ByRegister("LogicalLeft") >>
              [] operation = 3 -> << "Move", ByRegister("LogicalRight") >>
              [] operation = 4 -> << "Move", ByRegister("ArithmeticRight") >>
              [] operation = 5 -> << "AddWithCarry", Register(rs) >>
              [] operation = 6 -> << "SubtractWithCarry", Register(rs) >>
              [] operation = 7 -> << "Move", ByRegister("RotateRight") >>
              [] operation = 8 -> << "Test", Register(rs) >>
              [] operation = 9 -> << "Subtract", Immediate(Zero32) >>
              [] operation = 10 -> << "Compare", Register(rs) >>
              [] operation = 11 -> << "CompareNegate", Register(rs) >>
              [] operation = 12 -> << "Or", Register(rs) >>
              [] operation = 14 -> << "AndNot", Register(rs) >>
              [] operation = 15 -> << "MoveNegate", Register(rs) >>
        source == IF operation = 9 THEN rs ELSE rd
        destination == IF operation \in { 8, 10, 11 } THEN None ELSE Some(rd)
    IN  IF operation = 13 THEN DecodePanic
        ELSE DataProcessingInstruction(TRUE, source, op_operand[2], destination,
                                       op_operand[1])

\* thumb::decode_move_shifted_register
decode_move_shifted_register(opcode) ==
    LET shift_type == ShiftType_from_u32(Field(opcode, 11, 2))
        offset == Field(opcode, 6, 5)
        rs == Field(opcode, 3, 3)
        rd == Field(opcode, 0, 3)
    IN  DataProcessingInstruction(
            TRUE, rs,
            RegisterShifted([ t |-> "Immediate", base_register |-> rs,
                              shift_amount |-> offset, shift_type |-> shift_type ]),
            Some(rd), "Move")

\* thumb::decode_load_store_register_offset
decode_load_store_register_offset(opcode) ==
    SingleDataTransferInstruction(
        Field(opcode, 0, 3), Field(opcode, 3, 3), Register(Field(opcode, 6, 3)),
        BitSet(opcode, 11), FALSE, BitSet(opcode, 10), TRUE, TRUE, FALSE)

\* thumb::decode_pc_relative_load
decode_pc_relative_load(opcode) ==
    SingleDataTransferInstruction(
        Field(opcode, 8, 3), 15, Immediate(N32(4 * Field(opcode, 0, 8))),
        TRUE, FALSE, FALSE, TRUE, TRUE, TRUE)

\* thumb::decode_sp_relative_load_store
decode_sp_relative_load_store(opcode) ==
    SingleDataTransferInstruction(
        Field(opcode, 8, 3), 13, Immediate(N32(4 * Field(opcode, 0, 8))),
        BitSet(opcode, 11), FALSE, FALSE, TRUE, TRUE, FALSE)

\* thumb::decode_load_store_halfword
decode_load_store_halfword(opcode) ==
    HalfwordDataTransferRegInstruction(
        TRUE, TRUE, FALSE, BitSet(opcode, 11), FALSE, TRUE, Field(opcode, 3, 3),
        << "Offset", (2 * Field(opcode, 6, 5)) % 256 >>, Field(opcode, 0, 3))

\* thumb::decode_load_store_sign_extended
decode_load_store_sign_extended(opcode) ==
    LET halfword == BitSet(opcode, 11)
        sign == BitSet(opcode, 10)
    IN  HalfwordDataTransferRegInstruction(
            TRUE, TRUE, FALSE, sign \/ halfword, sign, halfword, Field(opcode, 3, 3),
            << "Register", Field(opcode, 6, 3) >>, Field(opcode, 0, 3))

\* thumb::decode_push_pop_registers
decode_push_pop_registers(opcode) ==
    LET low_list == { i \in 0 .. 7 : BitSet(opcode, i) }
        load == BitSet(opcode, 11)
        store_lr == BitSet(opcode, 8)
        register_list ==
            IF store_lr THEN low_list \cup { IF load THEN 15 ELSE 14 } ELSE low_list
    IN  BlockDataTransferInstruction(
            13, register_list, load, TRUE, load, ~load, FALSE,
            Cardinality(low_list) + (IF store_lr THEN 1 ELSE 0))

\* thumb::decode_add_offset_stack_pointer
decode_add_offset_stack_pointer(opcode) ==
    DataProcessingInstruction(
        FALSE, 13, Immediate(N32(4 * Field(opcode, 0, 7))), Some(13),
        IF BitSet(opcode, 7) THEN "Subtract" ELSE "Add")

-----------------------------------------------------------------------------
(* Interpreter::decode_arm and Interpreter::decode_thumb on a fetched pair *)
(* << raw word, location >>: the instruction record, DecodePanic, or the   *)
(* error [ kind |-> "err", err |-> OpcodeNotImplemented(raw) ].            *)

ArmInstruction(R, w) ==
    CASE Matches(w, arm_branch.BRANCH_AND_EXCHANGE_MASK, arm_branch.BRANCH_AND_EXCHANGE_FORMAT) ->
            BranchAndExchangeInstruction_decode(w)
      [] OTHER ->
    CASE Matches(w, arm_transfer.BLOCK_TRANSFER_MASK, arm_transfer.BLOCK_TRANSFER_FORMAT) ->
            BlockDataTransferInstruction_decode(w)
      [] OTHER ->
    CASE Matches(w, arm_branch.BRANCH_MASK, arm_branch.BRANCH_FORMAT) ->
            BranchInstruction_decode(R, w)
      [] OTHER ->
    CASE Matches(w, arm_interrupt.SOFTWARE_INTERRUPT_MASK, arm_interrupt.SOFTWARE_INTERRUPT_FORMAT) ->
            SoftwareInterruptInstruction_decode(R, w)
      [] OTHER ->
    CASE Matches(w, arm_transfer.SINGLE_TRANSFER_MASK, arm_transfer.SINGLE_TRANSFER_FORMAT) ->
            SingleDataTransferInstruction_decode(R, w)
      [] OTHER ->
    CASE Matches(w, arm_transfer.SINGLE_DATA_SWAP_MASK, arm_transfer.SINGLE_DATA_SWAP_FORMAT) ->
            SingleDataSwapInstruction_decode(w)
      [] OTHER ->
    CASE Matches(w, arm_multiply.MULTIPLY_MASK, arm_multiply.MULTIPLY_FORMAT) -> DecodePanic
      [] OTHER ->
    CASE Matches(w, arm_multiply.MULTIPLY_MASK, arm_multiply.MULTIPLY_LONG_FORMAT) -> DecodePanic
      [] OTHER ->
    CASE Matches(w, arm_halfword.HALFWORD_DATA_TRANSFER_REG_MASK, arm_halfword.HALFWORD_DATA_TRANSFER_REG_FORMAT) ->
            HalfwordDataTransferRegInstruction_decode(w)
      [] OTHER ->
    CASE Matches(w, arm_transfer.PSR_TRANSFER_MRS_MASK, arm_transfer.PSR_TRANSFER_MRS_FORMAT) ->
            PsrTransferMrsInstruction_decode(w)
      [] OTHER ->
    CASE Matches(w, arm_transfer.PSR_TRANSFER_MSR_MASK, arm_transfer.PSR_TRANSFER_MSR_FORMAT) ->
            PsrTransferMsrInstruction_decode(R, w)
      [] OTHER ->
    CASE Matches(w, arm_arithmetic.DATA_PROCESSING_MASK, arm_arithmetic.DATA_PROCESSING_FORMAT) ->
            DataProcessingInstruction_decode(R, w)
      [] OTHER -> [ kind |-> "err", err |-> OpcodeNotImplemented(w) ]

\* Ok(Operation { location, condition, opcode, instruction }), or the decoder's
\* panic or error
DecodedOperation(location, condition, opcode, instruction) ==
    IF instruction.kind \in { "panic", "err" } THEN instruction
    ELSE [ kind |-> "ok",
           op |-> [ location |-> location, condition |-> condition, opcode |-> opcode,
                    instruction |-> instruction ] ]

\* Interpreter::decode_arm
decode_arm(R, fetched) ==
    DecodedOperation(fetched[2], Field(fetched[1], 28, 4), fetched[1],
                     ArmInstruction(R, fetched[1]))

ThumbInstruction(w) ==
    CASE Matches(w, thumb_other.SOFTWARE_INTERRUPT_MASK, thumb_other.SOFTWARE_INTERRUPT_FORMAT) ->
            DecodePanic
      [] OTHER ->
    CASE Matches(w, thumb_branch.UNCONDITIONAL_BRANCH_MASK, thumb_branch.UNCONDITIONAL_BRANCH_FORMAT) ->
            DecodePanic
      [] OTHER ->
    CASE Matches(w, thumb_branch.CONDITIONAL_BRANCH_MASK, thumb_branch.CONDITIONAL_BRANCH_FORMAT) ->
            decode_conditional_branch(w)
      [] OTHER ->
    CASE Matches(w, thumb_other.MULTIPLE_LOAD_STORE_MASK, thumb_other.MULTIPLE_LOAD_STORE_FORMAT) ->
            DecodePanic
      [] OTHER ->
    CASE Matches(w, thumb_branch.LONG_BRANCH_WITH_LINK_MASK, thumb_branch.LONG_BRANCH_WITH_LINK_FORMAT) ->
            LongBranchWithLinkInstruction_decode(w)
      [] OTHER ->
    CASE Matches(w, thumb_stack.ADD_OFFSET_TO_STACK_POINTER_MASK, thumb_stack.ADD_OFFSET_TO_STACK_POINTER_FORMAT) ->
            decode_add_offset_stack_pointer(w)
      [] OTHER ->
    CASE Matches(w, thumb_stack.PUSH_POP_REGISTERS_MASK, thumb_stack.PUSH_POP_REGISTERS_FORMAT) ->
            decode_push_pop_registers(w)
      [] OTHER ->
    CASE Matches(w, thumb_load.LOAD_STORE_HALFWORD_MASK, thumb_load.LOAD_STORE_HALFWORD_FORMAT) ->
            decode_load_store_halfword(w)
      [] OTHER ->
    CASE Matches(w, thumb_load.SP_RELATIVE_LOAD_STORE_MASK, thumb_load.SP_RELATIVE_LOAD_STORE_FORMAT) ->
            decode_sp_relative_load_store(w)
      [] OTHER ->
    CASE Matches(w, thumb_other.LOAD_ADDRESS_MASK, thumb_other.LOAD_ADDRESS_FORMAT) -> DecodePanic
      [] OTHER ->
    CASE Matches(w, thumb_other.LOAD_STORE_WITH_IMMEDIATE_OFFSET_MASK, thumb_other.LOAD_STORE_WITH_IMMEDIATE_OFFSET_FORMAT) ->
            DecodePanic
      [] OTHER ->
    CASE Matches(w, thumb_load.LOAD_STORE_WITH_REGISTER_OFFSET_MASK, thumb_load.LOAD_STORE_WITH_REGISTER_OFFSET_FORMAT) ->
            decode_load_store_register_offset(w)
      [] OTHER ->
    CASE Matches(w, thumb_load.LOAD_STORE_SIGN_EXT_BYTE_HALFWORD_MASK, thumb_load.LOAD_STORE_SIGN_EXT_BYTE_HALFWORD_FORMAT) ->
            decode_load_store_sign_extended(w)
      [] OTHER ->
    CASE Matches(w, thumb_load.PC_RELATIVE_LOAD_MASK, thumb_load.PC_RELATIVE_LOAD_FORMAT) ->
            decode_pc_relative_load(w)
      [] OTHER ->
    CASE Matches(w, thumb_branch.HI_REGISTER_OPERATIONS_BRANCH_EXCHANGE_MASK, thumb_branch.HI_REGISTER_OPERATIONS_BRANCH_EXCHANGE_FORMAT) ->
            decode_hi_reg_branch_exchange(w)
      [] OTHER ->
    CASE Matches(w, thumb_alu.ALU_OPERATION_MASK, thumb_alu.ALU_OPERATION_FORMAT) ->
            decode_alu_operations(w)
      [] OTHER ->
    CASE Matches(w, thumb_alu.MOVE_COMPARE_ADD_SUBTRACT_IMMEDIATE_MASK, thumb_alu.MOVE_COMPARE_ADD_SUBTRACT_IMMEDIATE_FORMAT) ->
            decode_mcas_immediate(w)
      [] OTHER ->
    CASE Matches(w, thumb_alu.ADD_SUBTRACT_MASK, thumb_alu.ADD_SUBTRACT_FORMAT) ->
            decode_add_subtract(w)
      [] OTHER ->
    CASE Matches(w, thumb_alu.MOVE_SHIFTED_REGISTER_MASK, thumb_alu.MOVE_SHIFTED_REGISTER_FORMAT) ->
            decode_move_shifted_register(w)
      [] OTHER -> [ kind |-> "err", err |-> OpcodeNotImplemented(w) ]

decode_thumb(R, fetched) ==
    LET w == << 0, Lo(fetched[1]) >>
    IN  DecodedOperation(fetched[2],
                         IF Matches(w, thumb_branch.CONDITIONAL_BRANCH_MASK,
                                    thumb_branch.CONDITIONAL_BRANCH_FORMAT)
                         THEN Field(w, 8, 4) ELSE 14,
                         w, ThumbInstruction(w))

\* LS as !C and Z, the other codes as they are
check_condition_ls_and(R, condition) ==
    CASE condition = 0 -> R.cpsr.zero
      [] condition = 1 -> ~R.cpsr.zero
      [] condition = 2 -> R.cpsr.carry
      [] condition = 3 -> ~R.cpsr.carry
      [] condition = 4 -> R.cpsr.signed
      [] condition = 5 -> ~R.cpsr.signed
      [] condition = 6 -> R.cpsr.overflow
      [] condition = 7 -> ~R.cpsr.overflow
      [] condition = 8 -> R.cpsr.carry /\ ~R.cpsr.zero
      [] condition = 9 -> ~R.cpsr.carry /\ R.cpsr.zero
      [] condition = 10 -> R.cpsr.signed = R.cpsr.overflow
      [] condition = 11 -> R.cpsr.signed # R.cpsr.overflow
      [] condition = 12 -> ~R.cpsr.zero /\ R.cpsr.signed = R.cpsr.overflow
      [] condition = 13 -> R.cpsr.zero \/ R.cpsr.signed # R.cpsr.overflow
      [] condition = 14 -> TRUE
      [] condition = 15 -> FALSE
      [] OTHER -> TRUE

\* Interpreter::check_condition
check_condition(R, condition) ==
    CASE condition = 0 -> R.cpsr.zero
      [] condition = 1 -> ~R.cpsr.zero
      [] condition = 2 -> R.cpsr.carry
      [] condition = 3 -> ~R.cpsr.carry
      [] condition = 4 -> R.cpsr.signed
      [] condition = 5 -> ~R.cpsr.signed
      [] condition = 6 -> R.cpsr.overflow
      [] condition = 7 -> ~R.cpsr.overflow
      [] condition = 8 -> R.cpsr.carry /\ ~R.cpsr.zero
      [] condition = 9 -> ~R.cpsr.carry \/ R.cpsr.zero
      [] condition = 10 -> R.cpsr.signed = R.cpsr.overflow
      [] condition = 11 -> R.cpsr.signed # R.cpsr.overflow
      [] condition = 12 -> ~R.cpsr.zero /\ R.cpsr.signed = R.cpsr.overflow
      [] condition = 13 -> R.cpsr.zero \/ R.cpsr.signed # R.cpsr.overflow
      [] condition = 14 -> TRUE
      [] condition = 15 -> FALSE
      [] OTHER -> TRUE

-----------------------------------------------------------------------------
(* Register writes and the results of an executor.                         *)

\* *registers.reg_with_mode_mut(index, mode) = value: [panic, R]
StoreReg(R, index, mode, value) ==
    LET slot == reg_with_mode_mut(index, mode)
    IN  IF SlotInBounds(R, slot)
        THEN [ panic |-> FALSE, R |-> StoreSlot(R, slot, value) ]
        ELSE [ panic |-> TRUE, R |-> R ]

\* *registers.reg_mut(index) = value: [panic, R]
reg_mut(R, index, value) == StoreReg(R, index, R.cpsr.mode, value)

\* *registers.pc_mut() = value.  The register bank of the sources has no
\* pipeline_flush field, the one Interpreter::execute reads: in the model a write
\* through pc_mut is what signals the flush (branch, branch-and-exchange, software
\* interrupt and the second half of a long branch write the PC through it).
pc_mut(R, value) == [ StoreSlot(R, << "reg", 15 >>, value) EXCEPT !.pipeline_flush = TRUE ]

\* RegisterBank::spsr_with_mode: the index of the mode's SPSR
SpsrIndex(mode) ==
    CASE mode = "Fiq" -> 0
      [] mode = "Supervisor" -> 1
      [] mode = "Irq" -> 2
      [] mode = "Abort" -> 3
      [] mode = "Undefined" -> 4
      [] OTHER -> 0

\* RegisterBank::spsr
spsr(R) == R.spsr[SpsrIndex(R.cpsr.mode)]

Ok(R, M, cycles) == [ kind |-> "ok", R |-> R, M |-> M, cycles |-> cycles ]

Err(R, M, err) == [ kind |-> "err", R |-> R, M |-> M, err |-> err ]

Panicked(R, M) == [ kind |-> "panic", R |-> R, M |-> M ]

\* a as i32 + b as i32
CheckedAddSigned(a, b) ==
    LET sum == Add32(a, b)
    IN  IF overflow_checks /\ BitSet(a, 31) = BitSet(b, 31) /\ BitSet(sum, 31) # BitSet(a, 31)
        THEN ArithPanic ELSE sum

-----------------------------------------------------------------------------
(* InstructionExecutor::execute of each instruction *)

\* BranchInstruction::execute
BranchInstruction_execute(ins, R, M) ==
    LET linked == IF ins.link # None THEN reg_mut(R, 14, ins.link[1])
                  ELSE [ panic |-> FALSE, R |-> R ]
        target == CheckedAddSigned(pc(linked.R), ins.offset)
    IN  IF linked.panic \/ IsPanic(target) THEN Panicked(linked.R, M)
        ELSE Ok(pc_mut(linked.R, target), M, 3)

\* The target written to the PC with its bit 0 left in place
BranchAndExchangeInstruction_execute_bit0_kept(ins, R, M) ==
    LET target_address == reg(R, ins.target_register)
    IN  IF IsPanic(target_address) THEN Panicked(R, M)
        ELSE Ok([ pc_mut(R, target_address)
                      EXCEPT !.cpsr.instruction_mode =
                          IF Lo(target_address) % 2 = 1 THEN "Thumb" ELSE "Arm" ],
                M, 3)

\* BranchAndExchangeInstruction::execute
BranchAndExchangeInstruction_execute(ins, R, M) ==
    LET target_address == reg(R, ins.target_register)
    IN  IF IsPanic(target_address) THEN Panicked(R, M)
        ELSE Ok([ pc_mut(R, And32(target_address, << 65535, 65534 >>))
                      EXCEPT !.cpsr.instruction_mode =
                          IF Lo(target_address) % 2 = 1 THEN "Thumb" ELSE "Arm" ],
                M, 3)

\* SoftwareInterruptInstruction::execute
SoftwareInterruptInstruction_execute(ins, R, M) ==
    LET linked == reg_mut(R, 14, ins.past_address)
        jumped == pc_mut(linked.R, N32(8))
    IN  IF linked.panic THEN Panicked(R, M)
        ELSE Ok([ jumped EXCEPT !.spsr[SpsrIndex(jumped.cpsr.mode)] = jumped.cpsr ], M, 1)

\* The (result, overflow) pair of a data-processing operation: [panic, result, overflow]
DataProcessingResult(operation, source, operand, carry) ==
    LET carry_minus_1 == CheckedSub(N32(B2N(carry)), N32(1))
        Pair(p) == [ panic |-> FALSE, result |-> p[1], overflow |-> p[2] ]
        Logical(result) == [ panic |-> FALSE, result |-> result, overflow |-> FALSE ]
        WithCarry(first, addend) ==
            LET second == overflowing_add(first[1], addend)
            IN  [ panic |-> FALSE, result |-> second[1], overflow |-> first[2] \/ second[2] ]
    IN  CASE operation \in { "And", "Test" } -> Logical(And32(source, operand))
          [] operation \in { "ExclusiveOr", "TestEqual" } -> Logical(Xor32(source, operand))
          [] operation \in { "Subtract", "Compare" } -> Pair(overflowing_sub(source, operand))
          [] operation = "ReverseSubtract" -> Pair(overflowing_sub(operand, source))
          [] operation \in { "Add", "CompareNegate" } -> Pair(overflowing_add(source, operand))
          [] operation = "AddWithCarry" ->
                WithCarry(overflowing_add(source, operand), N32(B2N(carry)))
          [] operation = "SubtractWithCarry" ->
                IF IsPanic(carry_minus_1) THEN [ panic |-> TRUE ]
                ELSE WithCarry(overflowing_sub(source, operand), carry_minus_1)
          [] operation = "ReverseSubtractWithCarry" ->
                IF IsPanic(carry_minus_1) THEN [ panic |-> TRUE ]
                ELSE WithCarry(overflowing_sub(operand, source), carry_minus_1)
          [] operation = "Or" -> Logical(Or32(source, operand))
          [] operation = "Move" -> Logical(operand)
          [] operation = "AndNot" -> Logical(And32(source, Not32(operand)))
          [] operation = "MoveNegate" -> Logical(Not32(operand))

\* The flags and Ok(1) at the end of DataProcessingInstruction::execute, written being
\* the register bank after the write of the destination
DataProcessingFlags(ins, M, source, operand, computed, written) ==
    IF written.panic THEN Panicked(written.R, M)
    ELSE Ok(IF ins.update_conditions
            THEN [ written.R EXCEPT
                     !.cpsr.overflow = ~BitSet(Xor32(source, operand), 31)
                                       /\ BitSet(Xor32(source, computed.result), 31),
                     !.cpsr.carry = computed.overflow,
                     !.cpsr.zero = (computed.result = Zero32),
                     !.cpsr.signed = BitSet(computed.result, 31) ]
            ELSE written.R,
            M, 1)

\* The write of the destination register, computed being the operation's pair
DataProcessingWrite(ins, R, M, source, operand, computed) ==
    IF computed.panic THEN Panicked(R, M)
    ELSE DataProcessingFlags(
             ins, M, source, operand, computed,
             IF ins.destination_register_index # None
             THEN reg_mut(R, ins.destination_register_index[1], computed.result)
             ELSE [ panic |-> FALSE, R |-> R ])

\* The operation on source (the source register) and operand (the operand's value)
DataProcessingCompute(ins, R, M, source, operand) ==
    IF IsPanic(source) \/ operand.panic THEN Panicked(R, M)
    ELSE DataProcessingWrite(
             ins, R, M, source, operand.value,
             DataProcessingResult(ins.operation, source, operand.value, R.cpsr.carry))

\* DataProcessingInstruction::execute
DataProcessingInstruction_execute(ins, R, M) ==
    DataProcessingCompute(ins, R, M, reg(R, ins.source_register_index),
                          Operand_value(ins.operand, R))

\* address + offset or address - offset, offset being the value of the operand
OffsetBy(ins, address, offset) ==
    IF offset.panic THEN [ panic |-> TRUE ]
    ELSE [ panic |-> FALSE,
           value |-> IF ins.up THEN Add32(address, offset.value)
                     ELSE Sub32(address, offset.value) ]

\* SingleDataTransferInstruction::offset_address: [panic, value]
offset_address(ins, address, R) == OffsetBy(ins, address, Operand_value(ins.offset, R))

\* SingleDataTransferInstruction::calculate_address: [panic, value]
calculate_address(ins, R) ==
    LET base == reg(R, ins.base_register_index)
        address == IF ins.force_word_alignment THEN And32(base, << 65535, 65533 >>)
                   ELSE base
    IN  IF IsPanic(base) THEN [ panic |-> TRUE ]
        ELSE IF ins.pre_index THEN offset_address(ins, address, R)
        ELSE [ panic |-> FALSE, value |-> address ]

\* Ok(1) once the register is written
RegisterWritten(M, written) ==
    IF written.panic THEN Panicked(written.R, M) ELSE Ok(written.R, M, 1)

\* The base write of a post-indexed transfer, post being the offset address
PostIndexedWriteBack(ins, R, M, post) ==
    IF post.panic THEN Panicked(R, M)
    ELSE RegisterWritten(M, reg_mut(R, ins.base_register_index, post.value))

\* The base write after the transfer, at the end of SingleDataTransferInstruction::execute
SingleDataTransferWriteBack(ins, address, R, M) ==
    IF ~(ins.write_back \/ ~ins.pre_index) THEN Ok(R, M, 1)
    ELSE IF ~ins.pre_index THEN PostIndexedWriteBack(ins, R, M, offset_address(ins, address, R))
    ELSE RegisterWritten(M, reg_mut(R, ins.base_register_index, address))

\* The register bank the transferred register is taken from
SingleDataTransferMode(ins, R) ==
    IF ~ins.pre_index /\ ins.write_back THEN "User" ELSE R.cpsr.mode

\* bus.read_byte(address)? as u32
ByteAsWord(byte) == IF byte.ok THEN [ ok |-> TRUE, v |-> << 0, byte.v >> ] ELSE byte

\* The load once the register is written
SingleDataTransferLoaded(ins, address, M, loaded) ==
    IF loaded.panic THEN Panicked(loaded.R, M)
    ELSE SingleDataTransferWriteBack(ins, address, loaded.R, M)

\* The load, read being what the bus returned
SingleDataTransferLoad(ins, address, R, M, read) ==
    IF ~read.ok THEN Err(R, M, read.err)
    ELSE SingleDataTransferLoaded(
             ins, address, M,
             StoreReg(R, ins.source_register_index, SingleDataTransferMode(ins, R),
                      IF ~ins.byte_transfer /\ Lo(address) % 4 = 2
                      THEN RotateLeft32(read.v, 16) ELSE read.v))

\* The store once the bus has answered
SingleDataTransferStored(ins, address, R, written) ==
    IF ~written.ok THEN Err(R, written.M, written.err)
    ELSE SingleDataTransferWriteBack(ins, address, R, written.M)

\* The store, source_register being the value of the transferred register
SingleDataTransferStore(ins, address, R, M, source_register) ==
    LET stored_value == IF ins.source_register_index = 15
                        THEN CheckedSub(source_register, N32(4)) ELSE source_register
    IN  IF IsPanic(source_register) \/ IsPanic(stored_value) THEN Panicked(R, M)
        ELSE SingleDataTransferStored(
                 ins, address, R,
                 IF ins.byte_transfer THEN write_byte(M, address, Lo(stored_value) % 256)
                 ELSE write_dword(M, address, stored_value))

\* The transfer at the calculated address
SingleDataTransferAt(ins, R, M, calculated) ==
    IF calculated.panic THEN Panicked(R, M)
    ELSE IF ins.load
    THEN SingleDataTransferLoad(
             ins, calculated.value, R, M,
             IF ins.byte_transfer THEN ByteAsWord(read_byte(M, calculated.value))
             ELSE read_dword(M, calculated.value))
    ELSE SingleDataTransferStore(
             ins, calculated.value, R, M,
             reg_with_mode(R, ins.source_register_index, SingleDataTransferMode(ins, R)))

\* SingleDataTransferInstruction::execute
SingleDataTransferInstruction_execute(ins, R, M) ==
    SingleDataTransferAt(ins, R, M, calculate_address(ins, R))

\* The base register written back at the end of a turn of the loop
BlockTransferWriteBack(moved, after, back) ==
    IF back.panic THEN [ moved EXCEPT !.kind = "panic" ]
    ELSE [ moved EXCEPT !.base_address = after, !.R = back.R ]

\* base_address += 4 after the transfer, and the write-back
BlockTransferAdvance(ins, moved, ctx, before) ==
    LET after == IF ~ins.pre_index THEN CheckedAdd(before, N32(4)) ELSE before
    IN  IF IsPanic(after) THEN [ moved EXCEPT !.kind = "panic" ]
        ELSE IF ~ins.write_back THEN [ moved EXCEPT !.base_address = after ]
        ELSE BlockTransferWriteBack(
                 moved, after, reg_mut(moved.R, ins.base_register_index, ctx.new_address))

\* The load of register i once it is written; R15 with the S bit restores the CPSR
BlockTransferLoaded(ins, i, st, ctx, before, loaded) ==
    IF loaded.panic THEN [ st EXCEPT !.kind = "panic" ]
    ELSE BlockTransferAdvance(
             ins,
             [ st EXCEPT !.R = IF i = 15 /\ ins.psr_and_force_user
                               THEN [ loaded.R EXCEPT !.cpsr = spsr(loaded.R) ]
                               ELSE loaded.R ],
             ctx, before)

\* bus.read_dword(base_register).unwrap()
BlockTransferLoad(ins, i, st, ctx, before, read) ==
    IF ~read.ok THEN [ st EXCEPT !.kind = "panic" ]
    ELSE BlockTransferLoaded(ins, i, st, ctx, before,
                             StoreReg(st.R, i, ctx.register_bank, read.v))

\* bus.write_dword(base_register, value)?
BlockTransferStored(ins, st, ctx, before, written) ==
    IF ~written.ok
    THEN [ kind |-> "err", R |-> st.R, M |-> written.M, err |-> written.err,
           base_address |-> before ]
    ELSE BlockTransferAdvance(ins, [ st EXCEPT !.M = written.M ], ctx, before)

\* The store of register i, value being what the register holds
BlockTransferStore(ins, st, ctx, before, value) ==
    IF IsPanic(value) THEN [ st EXCEPT !.kind = "panic" ]
    ELSE BlockTransferStored(ins, st, ctx, before,
                             write_dword(st.M, ctx.base_register, value))

\* One turn of the loop of BlockDataTransferInstruction::execute, for register i of
\* the list; st is [kind, R, M, base_address] and ctx the values fixed before the loop
BlockTransferStep(ins, i, st, ctx) ==
    LET before == IF ins.pre_index THEN CheckedAdd(st.base_address, N32(4))
                  ELSE st.base_address
    IN  IF IsPanic(before) THEN [ st EXCEPT !.kind = "panic" ]
        ELSE IF ins.load
        THEN BlockTransferLoad(ins, i, st, ctx, before,
                               read_dword(st.M, ctx.base_register))
        ELSE BlockTransferStore(ins, st, ctx, before,
                                reg_with_mode(st.R, i, ctx.register_bank))

RECURSIVE BlockTransferLoop(_, _, _, _)
\* for i in i..16
BlockTransferLoop(ins, i, st, ctx) ==
    IF i = 16 \/ st.kind # "ok" THEN st
    ELSE BlockTransferLoop(ins, i + 1,
                           IF i \in ins.registers THEN BlockTransferStep(ins, i, st, ctx)
                           ELSE st,
                           ctx)

\* What BlockDataTransferInstruction::execute returns once its loop is done: Ok(1),
\* or the fault of a store (the `?` in the loop)
BlockTransferResult(done) ==
    CASE done.kind = "ok" -> Ok(done.R, done.M, 1)
      [] done.kind = "err" -> Err(done.R, done.M, done.err)
      [] done.kind = "panic" -> Panicked(done.R, done.M)

\* BlockDataTransferInstruction::execute
BlockDataTransferInstruction_execute(ins, R, M) ==
    LET base_register == reg(R, ins.base_register_index)
        n == ins.number_of_registers
        base_address ==
            IF ins.increment THEN base_register
            ELSE IF n = 0
            THEN (IF overflow_checks THEN ArithPanic
                  ELSE Sub32(base_register, << 65535, 65532 >>))
            ELSE CheckedSub(base_register, N32(4 * (n - 1)))
        register_bank ==
            IF (15 \notin ins.registers \/ ~ins.load) /\ ins.psr_and_force_user
            THEN "User" ELSE R.cpsr.mode
        new_address == IF ins.increment THEN CheckedAdd(base_address, N32(4 * n))
                       ELSE base_address
    IN  IF IsPanic(base_register) THEN Panicked(R, M)
        ELSE IF IsPanic(base_address) THEN Panicked(R, M)
        ELSE IF IsPanic(new_address) THEN Panicked(R, M)
        ELSE BlockTransferResult(
                 BlockTransferLoop(
                     ins, 0,
                     [ kind |-> "ok", R |-> R, M |-> M, base_address |-> base_address ],
                     [ base_register |-> base_register, register_bank |-> register_bank,
                       new_address |-> new_address ]))

\* PsrTransferMrsInstruction::execute
PsrTransferMrsInstruction_execute(ins, R, M) ==
    RegisterWritten(M, reg_mut(R, ins.destination_register_index,
                               IF ins.use_spsr THEN Psr_to_u32(spsr(R))
                               ELSE Psr_to_u32(R.cpsr)))

\* The fields PsrTransferMsrInstruction::execute copies into the target
MsrFields(ins, psr, psr_operand) ==
    LET flags == IF ins.write_flags
                 THEN [ psr EXCEPT !.zero = psr_operand.zero, !.signed = psr_operand.signed,
                                   !.carry = psr_operand.carry,
                                   !.overflow = psr_operand.overflow ]
                 ELSE psr
    IN  IF ins.write_control
        THEN [ flags EXCEPT !.irq_disable = psr_operand.irq_disable,
                            !.fiq_disable = psr_operand.fiq_disable,
                            !.instruction_mode = psr_operand.instruction_mode,
                            !.mode = psr_operand.mode ]
        ELSE flags

\* The write of the fields, psr_operand being the operand as a status register
MsrWrite(ins, R, M, psr_operand) ==
    IF ins.use_spsr
    THEN Ok([ R EXCEPT !.spsr[SpsrIndex(R.cpsr.mode)] = MsrFields(ins, @, psr_operand) ],
            M, 1)
    ELSE Ok([ R EXCEPT !.cpsr = MsrFields(ins, @, psr_operand) ], M, 1)

\* ProgramStatusRegister::from_u32(self.operand.value(registers))
MsrOperand(ins, R, M, operand) ==
    IF operand.panic THEN Panicked(R, M)
    ELSE MsrWrite(ins, R, M, Psr_from_u32(operand.value))

\* PsrTransferMsrInstruction::execute
PsrTransferMsrInstruction_execute(ins, R, M) ==
    MsrOperand(ins, R, M, Operand_value(ins.operand, R))

\* The write of the destination register once the bus has taken the store
SwapStored(ins, R, read, written) ==
    IF ~written.ok THEN Err(R, written.M, written.err)
    ELSE RegisterWritten(
             written.M,
             reg_mut(R, ins.destination_register_index,
                     IF ins.byte_transfer THEN And32(read.v, << 0, 255 >>) ELSE read.v))

\* The store first, and the load from what it left
SwapStore_write_first(ins, R, M, address, read, source_register) ==
    IF ~read.ok THEN Err(R, M, read.err)
    ELSE IF IsPanic(source_register) THEN Panicked(R, M)
    ELSE IF ins.byte_transfer
    THEN SwapStored(ins, R,
                    ByteAsWord(read_byte(write_byte(M, address, Lo(source_register) % 256).M,
                                         address)),
                    write_byte(M, address, Lo(source_register) % 256))
    ELSE SwapStored(ins, R,
                    read_dword(write_dword(M, address, source_register).M, address),
                    write_dword(M, address, source_register))

\* The store of the source register, read being what the bus returned for the load
SwapStore(ins, R, M, address, read, source_register) ==
    IF ~read.ok THEN Err(R, M, read.err)
    ELSE IF IsPanic(source_register) THEN Panicked(R, M)
    ELSE SwapStored(ins, R, read,
                    IF ins.byte_transfer
                    THEN write_byte(M, address, Lo(source_register) % 256)
                    ELSE write_dword(M, address, source_register))

\* The swap at the address the base register holds
SwapAt(ins, R, M, address) ==
    IF IsPanic(address) THEN Panicked(R, M)
    ELSE SwapStore(ins, R, M, address,
                   IF ins.byte_transfer THEN ByteAsWord(read_byte(M, address))
                   ELSE read_dword(M, address),
                   reg(R, ins.source_register_index))

\* SingleDataSwapInstruction::execute
SingleDataSwapInstruction_execute(ins, R, M) ==
    SwapAt(ins, R, M, reg(R, ins.base_register_index))

\* LongBranchWithLinkInstruction::execute
LongBranchWithLinkInstruction_execute(ins, R, M) ==
    LET lr == reg(R, 14)
        sum == CheckedAdd(lr, N32(2 * ins.offset))
        address == And32(sum, << 65535, 65534 >>)
        return == CheckedSub(pc(R), N32(2))
        linked == reg_mut(pc_mut(R, address), 14, Or32(return, N32(1)))
        high == reg_mut(R, 14,
                        Add32(pc(R), Or32(Shl32(N32(ins.offset), 12), << 65408, 0 >>)))
    IN  IF ins.h
        THEN (IF IsPanic(lr) THEN Panicked(R, M)
              ELSE IF IsPanic(sum) \/ IsPanic(return) THEN Panicked(R, M)
              ELSE IF linked.panic THEN Panicked(R, M)
              ELSE Ok(linked.R, M, 1))
        ELSE (IF high.panic THEN Panicked(R, M) ELSE Ok(high.R, M, 1))

-----------------------------------------------------------------------------
(* The pipeline: src/core/interpreter/mod.rs *)

\* InstructionExecutor::description, which Interpreter::execute evaluates for the
\* log line before it checks the condition: whether computing it panics
description_panics(ins, R) ==
    CASE ins.kind = "BranchAndExchange" -> IsPanic(reg(R, ins.target_register))
      [] ins.kind = "SingleDataTransfer" -> ins.load /\ calculate_address(ins, R).panic
      [] ins.kind = "LongBranchWithLink" ->
            IF ins.h
            THEN IsPanic(reg(R, 14)) \/ IsPanic(CheckedAdd(reg(R, 14), N32(2 * ins.offset)))
            ELSE IsPanic(CheckedAdd(pc(R), Shl32(N32(ins.offset), 12)))
      [] OTHER -> FALSE

\* ins.execute(&mut self.registers, bus), dispatched on the variant
InstructionExecutor_execute(ins, R, M) ==
    CASE ins.kind = "Branch" -> BranchInstruction_execute(ins, R, M)
      [] ins.kind = "BranchAndExchange" -> BranchAndExchangeInstruction_execute(ins, R, M)
      [] ins.kind = "DataProcessing" -> DataProcessingInstruction_execute(ins, R, M)
      [] ins.kind = "SingleDataTransfer" -> SingleDataTransferInstruction_execute(ins, R, M)
      [] ins.kind = "SoftwareInterrupt" -> SoftwareInterruptInstruction_execute(ins, R, M)
      [] ins.kind = "BlockDataTransfer" -> BlockDataTransferInstruction_execute(ins, R, M)
      [] ins.kind = "PsrTransferMrs" -> PsrTransferMrsInstruction_execute(ins, R, M)
      [] ins.kind = "PsrTransferMsr" -> PsrTransferMsrInstruction_execute(ins, R, M)
      [] ins.kind = "SingleDataSwap" -> SingleDataSwapInstruction_execute(ins, R, M)
      [] ins.kind = "LongBranchWithLink" -> LongBranchWithLinkInstruction_execute(ins, R, M)
      [] ins.kind = "HalfwordDataTransfer" -> [ kind |-> "unmodelled", R |-> R, M |-> M ]

\* What a flush leaves of the two slots, when only the decoded slot is dropped
FlushDecodedOnly(fetched, decoded) == [ fetched |-> fetched, decoded |-> None ]

\* self.decoded_instruction = None; self.fetched_instruction = None
FlushSlots(fetched, decoded) == [ fetched |-> None, decoded |-> None ]

\* The end of Interpreter::execute, res being what the instruction's execute returned:
\* the flush check, which clears the flag, then `cycles`
ExecuteFlushCheck(I, M, res) ==
    LET slots == IF res.R.pipeline_flush THEN FlushSlots(I.fetched, I.decoded)
                 ELSE [ fetched |-> I.fetched, decoded |-> I.decoded ]
        after == [ registers |-> [ res.R EXCEPT !.pipeline_flush = FALSE ],
                   fetched |-> slots.fetched, decoded |-> slots.decoded ]
    IN  CASE res.kind = "ok" ->
               [ kind |-> "ok", I |-> after, M |-> res.M, cycles |-> res.cycles ]
          [] res.kind = "err" ->
               [ kind |-> "err", I |-> after, M |-> res.M, err |-> res.err ]
          [] OTHER -> [ kind |-> res.kind, I |-> I, M |-> M ]

\* The decoded instruction executed whatever its condition
Interpreter_execute_unconditional(I, M) ==
    IF I.decoded = None THEN [ kind |-> "ok", I |-> I, M |-> M, cycles |-> 1 ]
    ELSE IF description_panics(I.decoded[1].instruction, I.registers)
    THEN [ kind |-> "panic", I |-> I, M |-> M ]
    ELSE ExecuteFlushCheck(
             I, M, InstructionExecutor_execute(I.decoded[1].instruction, I.registers, M))

\* Interpreter::execute on the interpreter I = [registers, fetched, decoded]:
\* [kind, I, M, cycles or err]
Interpreter_execute(I, M) ==
    IF I.decoded = None THEN [ kind |-> "ok", I |-> I, M |-> M, cycles |-> 1 ]
    ELSE IF description_panics(I.decoded[1].instruction, I.registers)
    THEN [ kind |-> "panic", I |-> I, M |-> M ]
    ELSE IF ~check_condition(I.registers, I.decoded[1].condition)
    THEN [ kind |-> "ok", I |-> I, M |-> M, cycles |-> 1 ]
    ELSE ExecuteFlushCheck(
             I, M, InstructionExecutor_execute(I.decoded[1].instruction, I.registers, M))

\* self.decoded_instruction = Some(decode(...)?), d being what the decoder returned
DecodedSlot(I, d) ==
    CASE d.kind = "ok" -> [ kind |-> "ok", I |-> [ I EXCEPT !.decoded = Some(d.op) ] ]
      [] d.kind = "err" -> [ kind |-> "err", I |-> I, err |-> d.err ]
      [] d.kind = "panic" -> [ kind |-> "panic", I |-> I ]

\* Interpreter::decode: [kind, I] or [kind, I, err]
Interpreter_decode(I) ==
    IF I.fetched = None THEN [ kind |-> "ok", I |-> I ]
    ELSE DecodedSlot(I, IF I.registers.cpsr.instruction_mode = "Arm"
                        THEN decode_arm(I.registers, I.fetched[1])
                        ELSE decode_thumb(I.registers, I.fetched[1]))

\* RegisterBank::increment_pc, which is not in the sources: the PC advances by one
\* instruction of the current instruction mode
increment_pc(R) ==
    [ R EXCEPT !.reg[15] =
        Add32(@, IF R.cpsr.instruction_mode = "Arm" THEN N32(4) ELSE N32(2)) ]

\* Interpreter::fetch without the increment of the PC
Interpreter_fetch_no_increment(I, M) ==
    LET fetch_location == pc(I.registers)
        word == read_dword(M, fetch_location)
    IN  IF ~word.ok THEN [ kind |-> "err", I |-> I, err |-> word.err ]
        ELSE [ kind |-> "ok",
               I |-> [ I EXCEPT !.fetched = Some(<< word.v, fetch_location >>) ] ]

\* Interpreter::fetch: [kind, I] or [kind, I, err]
Interpreter_fetch(I, M) ==
    LET fetch_location == pc(I.registers)
        word == read_dword(M, fetch_location)
    IN  IF ~word.ok THEN [ kind |-> "err", I |-> I, err |-> word.err ]
        ELSE [ kind |-> "ok",
               I |-> [ I EXCEPT !.fetched = Some(<< word.v, fetch_location >>),
                                !.registers = increment_pc(@) ] ]

\* self.fetch(bus)?; Ok(cycles), e and f being what execute and fetch returned
TickResult(e, f) ==
    IF f.kind # "ok" THEN f @@ [ M |-> e.M, executed |-> e.I ]
    ELSE [ kind |-> "ok", I |-> f.I, M |-> e.M, cycles |-> e.cycles, executed |-> e.I ]

\* self.decode()?; and the fetch, e and d being what execute and decode returned
TickFetch(e, d) ==
    IF d.kind # "ok" THEN d @@ [ M |-> e.M, executed |-> e.I ]
    ELSE TickResult(e, Interpreter_fetch(d.I, e.M))

\* let cycles = self.execute(bus)?; and the decode, e being what execute returned
TickDecode(e) ==
    IF e.kind # "ok" THEN e @@ [ executed |-> e.I ]
    ELSE TickFetch(e, Interpreter_decode(e.I))

\* Interpreter::tick: [kind, I, M, cycles or err, executed], executed being what the
\* execute step left
Interpreter_tick(I, M) == TickDecode(Interpreter_execute(I, M))

-----------------------------------------------------------------------------
(* The machine: one tick of the interpreter on the bus, with the record    *)
(* of what its execute step saw.                                           *)

\* The interpreter as the variables hold it
TheInterpreter ==
    [ registers |-> registers, fetched |-> fetched_instruction,
      decoded |-> decoded_instruction ]

NoExec ==
    [ present |-> FALSE, taken |-> FALSE, kind |-> "", location |-> Zero32,
      r15 |-> Zero32, mode |-> "Arm", flushed |-> FALSE, pc_after |-> Zero32,
      mode_after |-> "Arm", was_pending |-> None, pending |-> None,
      was_disturbed |-> FALSE, disturbed |-> FALSE, bus_fault |-> FALSE ]

\* What the execute step of the tick t on the interpreter I saw and did:
\*   present, taken   a decoded instruction was in the slot; its condition passed
\*   r15, mode        the PC and the instruction mode when it started
\*   flushed          it cleared the slots
\*   pending          the target of a flush that no executed instruction followed yet
\*   disturbed        the tick failed, or its execute step changed the PC or the
\*                    instruction mode without a flush
\*   bus_fault        it was a block load whose read of the bus M faulted
ExecRecord(I, M, t) ==
    LET present == I.decoded # None
        op == I.decoded[1]
        taken == present /\ ~description_panics(op.instruction, I.registers)
                         /\ check_condition(I.registers, op.condition)
        flushed == present /\ t.executed.decoded = None
        r15 == pc(I.registers)
        mode == I.registers.cpsr.instruction_mode
        pc_after == pc(t.executed.registers)
        mode_after == t.executed.registers.cpsr.instruction_mode
    IN  [ present |-> present, taken |-> taken,
          kind |-> IF present THEN op.instruction.kind ELSE "",
          location |-> IF present THEN op.location ELSE Zero32,
          r15 |-> r15, mode |-> mode, flushed |-> flushed,
          pc_after |-> pc_after, mode_after |-> mode_after,
          was_pending |-> lastExec.pending,
          pending |-> IF flushed THEN Some(pc_after)
                      ELSE IF present THEN None ELSE lastExec.pending,
          was_disturbed |-> lastExec.disturbed,
          disturbed |-> t.kind # "ok"
                        \/ (~flushed /\ (pc_after # r15 \/ mode_after # mode)),
          bus_fault |-> /\ taken
                        /\ op.instruction.kind = "BlockDataTransfer"
                        /\ op.instruction.load
                        /\ op.instruction.registers # {}
                        /\ ~IsPanic(reg(I.registers, op.instruction.base_register_index))
                        /\ ~read_dword(M, reg(I.registers,
                                              op.instruction.base_register_index)).ok ]

\* The tick t taken by the machine
TickTaken(t) ==
    /\ nTicks < MaxTicks
    /\ t.kind # "unmodelled"
    /\ registers' = t.I.registers
    /\ fetched_instruction' = t.I.fetched
    /\ decoded_instruction' = t.I.decoded
    /\ bus' = t.M
    /\ tickResult' = CASE t.kind = "ok" -> [ kind |-> "ok", cycles |-> t.cycles ]
                       [] t.kind = "err" -> [ kind |-> "err", err |-> t.err ]
                       [] t.kind = "panic" -> [ kind |-> "panic" ]
    /\ lastExec' = ExecRecord(TheInterpreter, bus, t)
    /\ nTicks' = nTicks + 1

\* self.cpu.tick(&mut self.bus)
Tick == TickTaken(Interpreter_tick(TheInterpreter, bus))

-----------------------------------------------------------------------------
(* Gba::emulate called directly, as the test suite and the command line do. *)

Budgets == { None } \cup { Some(n) : n \in 1 .. MaxBudget }

\* gba.emulate(budget): entry
EmulateCall(budget) ==
    /\ call.status \in { "idle", "ok", "err" }
    /\ nTicks < MaxTicks
    /\ call' = [ status |-> "running", budget |-> budget, cycles_done |-> 0 ]
    /\ UNCHANGED << registers, fetched_instruction, decoded_instruction, bus, tickResult,
                    lastExec, nTicks, regVars, overflow_checks, unitVars, shellVars >>

\* One turn of the loop of Gba::emulate
EmulateLoop ==
    /\ call.status = "running"
    /\ Tick
    /\ call' =
         CASE tickResult'.kind = "ok" ->
                LET cycles_done == call.cycles_done + tickResult'.cycles
                IN  [ call EXCEPT
                        !.cycles_done = cycles_done,
                        !.status = IF call.budget # None /\ cycles_done >= call.budget[1]
                                   THEN "ok" ELSE "running" ]
           [] tickResult'.kind = "err" -> [ call EXCEPT !.status = "err" ]
           [] tickResult'.kind = "panic" -> [ call EXCEPT !.status = "panic" ]
    /\ UNCHANGED << regVars, overflow_checks, unitVars, shellVars >>

\* The programs of the runs: ARM words, whose halves are also Thumb instructions
Alphabet ==
    { << 57647, 65296 >>,   \* E12FFF10  bx r0          | Thumb FF10 blh, E12F b (panics)
      << 58336, 0 >>,       \* E3E00000  mvn r0, #0     | Thumb 0000 lsl r0, r0, #0
      << 59536, 2 >>,       \* E8900002  ldmia r0, {r1} | Thumb 0002 lsl r2, r0, #0, E890 undefined
      << 58145, 61503 >>,   \* E321F03F  msr cpsr_c, #0x3F (Thumb state, System mode)
                            \*                          | Thumb F03F bl (first half)
      << 0, 53505 >>,       \* 0000D101  andeq r13, r0, r1, lsl #2 | Thumb D101 bne +1
      << 61184, 0 >>,       \* EF000000  swi 0          | Thumb EF00 undefined
      << 60159, 65534 >> }  \* EAFFFFFE  b .            | Thumb FFFE blh

NoWrite == [ index |-> 0, mode |-> "User", value |-> Zero32, panicked |-> FALSE ]

\* The BIOS image that starts with the program
BiosImage(program) ==
    [ i \in 1 .. 4 * Len(program) |-> BytesOf(program[((i - 1) \div 4) + 1])[((i - 1) % 4) + 1] ]

\* Who holds the mutex: nobody, the update loop, or the task of that number
NoHolder == -1

TheUi == 0

\* No operation is called directly
NoProbe == [ op |-> "none" ]

InitShellIdle ==
    /\ emulation_running = FALSE
    /\ mutex = [ holder |-> NoHolder, poisoned |-> FALSE ]
    /\ tasks = << >>
    /\ ui = [ at |-> "idle", clicks |-> 0, stopped |-> 0 ]
    /\ probe = NoProbe

InitPipe ==
    /\ registers = DefaultRegisterBank
    /\ fetched_instruction = None
    /\ decoded_instruction = None
    /\ \E program \in [ 1 .. ProgWords -> Alphabet ] :
         bus = [ bios |-> BiosImage(program), wram_on |-> [ o \in {} |-> 0 ],
                 wram_ext |-> [ o \in {} |-> 0 ], post_boot |-> FALSE,
                 interrupt_master_enable |-> FALSE ]
    /\ overflow_checks \in BOOLEAN
    /\ tickResult = [ kind |-> "none" ]
    /\ lastExec = NoExec
    /\ nTicks = 0
    /\ call = [ status |-> "idle", budget |-> None, cycles_done |-> 0 ]
    /\ nWrites = 0
    /\ lastWrite = NoWrite
    /\ InitShellIdle

NextPipe ==
    \/ \E budget \in Budgets : EmulateCall(budget)
    \/ EmulateLoop

SpecPipe == InitPipe /\ [][NextPipe]_vars

-----------------------------------------------------------------------------
(* The pipeline's contract *)

\* L + 8 in ARM mode, L + 4 in Thumb mode
OperandPC(location, mode) == Add32(location, IF mode = "Arm" THEN N32(8) ELSE N32(4))

\* pc % stride = 0
Aligned(address, mode) == Lo(address) % (IF mode = "Arm" THEN 4 ELSE 2) = 0

C3_PcAligned ==
    lastExec.taken /\ tickResult.kind = "ok"
        => Aligned(lastExec.pc_after, lastExec.mode_after)

\* C4: a bus fault raised while an instruction executes is returned from tick as an
\* error value; here for the read of a block load.
C4_BusFaultReturned == lastExec.bus_fault => tickResult.kind = "err"

\* C7: a run with a cycle budget ends by returning: successfully once the cycles
\* reach the budget, or with the fault of the first failing tick.
C7_BudgetedRunReturns ==
    call.budget # None /\ call.status # "running"
        => \/ call.status = "idle"
           \/ call.status = "ok" /\ call.cycles_done >= call.budget[1]
           \/ call.status = "err" /\ tickResult.kind = "err"

-----------------------------------------------------------------------------
(* The register bank on its own: writes through reg_with_mode_mut under any *)
(* mode, read back through reg_with_mode.                                   *)

RegisterIndices == 0 .. 15

\* Supervisor, IRQ, Abort and Undefined: the modes that bank R13 and R14 only
ExceptionModes == { "Supervisor", "Irq", "Abort", "Undefined" }

\* *registers.reg_with_mode_mut(index, mode) = value; an index past the end of the
\* mode's bank panics, and nothing runs after a panic
RegWrite(index, mode, value) ==
    /\ nWrites < MaxWrites
    /\ ~lastWrite.panicked
    /\ nWrites' = nWrites + 1
    /\ lastWrite' = [ index |-> index, mode |-> mode, value |-> value,
                      panicked |-> StoreReg(registers, index, mode, value).panic ]
    /\ registers' = StoreReg(registers, index, mode, value).R
    /\ UNCHANGED << fetched_instruction, decoded_instruction, bus, tickResult, lastExec,
                    nTicks, call, overflow_checks, unitVars, shellVars >>

InitRegs ==
    /\ registers = DefaultRegisterBank
    /\ fetched_instruction = None
    /\ decoded_instruction = None
    /\ bus = [ bios |-> << >>, wram_on |-> [ o \in {} |-> 0 ],
               wram_ext |-> [ o \in {} |-> 0 ], post_boot |-> FALSE,
               interrupt_master_enable |-> FALSE ]
    /\ overflow_checks = FALSE
    /\ tickResult = [ kind |-> "none" ]
    /\ lastExec = NoExec
    /\ nTicks = 0
    /\ call = [ status |-> "idle", budget |-> None, cycles_done |-> 0 ]
    /\ nWrites = 0
    /\ lastWrite = NoWrite
    /\ InitShellIdle

\* Each write stores a value no register holds yet
NextRegs ==
    \E index \in RegisterIndices, mode \in CpuModes : RegWrite(index, mode, N32(nWrites + 1))

SpecRegs == InitRegs /\ [][NextRegs]_vars

\* C9: a write of R13 or R14 under Supervisor, IRQ, Abort or Undefined leaves what
\* every other mode reads for that register as it was: the other three of these
\* modes, User and System, and FIQ.
C9_ExceptionBanksIsolated ==
    [][ /\ nWrites' = nWrites + 1
        /\ lastWrite'.index \in { 13, 14 }
        /\ lastWrite'.mode \in ExceptionModes
        => \A m2 \in CpuModes \ { lastWrite'.mode } :
               reg_with_mode(registers', lastWrite'.index, m2)
                   = reg_with_mode(registers, lastWrite'.index, m2) ]_vars

\* C9: R13 or R14 was written under IRQ after it was written under Supervisor, and
\* each of the two modes reads its own value
C9_Witness ==
    /\ lastWrite.index \in { 13, 14 }
    /\ lastWrite.mode = "Irq"
    /\ reg_with_mode(registers, lastWrite.index, "Irq") = lastWrite.value
    /\ reg_with_mode(registers, lastWrite.index, "Supervisor") \notin { Zero32, lastWrite.value }
    /\ reg_with_mode(registers, lastWrite.index, "User") = Zero32

\* C10: R0-R7 and R15 read the same under every mode as under User, and so does
\* every register under System, after any writes under any modes.
C10_UnbankedAlias ==
    /\ \A i \in (0 .. 7) \cup { 15 } : \A m \in CpuModes :
           reg_with_mode(registers, i, m) = reg_with_mode(registers, i, "User")
    /\ \A i \in RegisterIndices :
           reg_with_mode(registers, i, "System") = reg_with_mode(registers, i, "User")

\* C10: R7 was written under FIQ and every mode reads the value written
C10_Witness ==
    /\ lastWrite.index = 7
    /\ lastWrite.mode = "Fiq"
    /\ lastWrite.value # Zero32
    /\ \A m \in CpuModes : reg_with_mode(registers, 7, m) = lastWrite.value

-----------------------------------------------------------------------------
(* The debugger shell: src/gui/mod.rs.  The update loop handles one message *)
(* at a time; the futures it spawns run beside it and reach the machine     *)
(* through the mutex.                                                       *)

\* The BIOS images of the shell's runs: a program that loops for ever, one that ends
\* in a fetch fault, one that ends in the fault of a block load
ShellPrograms ==
    { << << 60159, 65534 >> >>,                     \* b .
      << << 58336, 0 >>, << 57647, 65296 >> >>,     \* mvn r0, #0 ; bx r0
      << << 58336, 0 >>, << 59536, 2 >> >> }        \* mvn r0, #0 ; ldmia r0, {r1}

\* gba.lock() returns at once: nobody holds the mutex
CanLockAlways == TRUE

\* gba.lock() returns: nobody holds the mutex (the caller waits until then)
CanLock == mutex.holder = NoHolder

Released == [ mutex EXCEPT !.holder = NoHolder ]

\* The future of Task::perform: task kind, where it is, the ticks it made since it
\* took the lock, and those of them it made while the running flag was clear
NewTask(kind, at) == [ kind |-> kind, pc |-> at, ticks |-> 0, after_clear |-> 0 ]

UiIdle == ui.at = "idle"

Click == UiIdle /\ ui.clicks < MaxClicks

\* Message::ChangeRunningState: the flag is toggled; resuming spawns the run task
ChangeRunningState ==
    /\ Click
    /\ emulation_running' = ~emulation_running
    /\ tasks' = IF emulation_running THEN tasks ELSE Append(tasks, NewTask("run", "check"))
    /\ ui' = [ ui EXCEPT !.clicks = @ + 1 ]
    /\ UNCHANGED << cpuVars, call, regVars, overflow_checks, unitVars, mutex >>

\* DebuggerWindow::emulation_controls: the Step and Reset buttons send their
\* messages only while the running flag is clear
ControlsEnabled == ~emulation_running

\* Message::StepEmulation: spawns the step task
StepEmulation ==
    /\ Click
    /\ ControlsEnabled
    /\ tasks' = Append(tasks, NewTask("step", "lock"))
    /\ ui' = [ ui EXCEPT !.clicks = @ + 1 ]
    /\ UNCHANGED << cpuVars, call, regVars, overflow_checks, unitVars, mutex, emulation_running >>

\* Message::ResetEmulation: the update loop asks for the lock
ResetEmulation ==
    /\ Click
    /\ ControlsEnabled
    /\ ui' = [ ui EXCEPT !.clicks = @ + 1, !.at = "reset_lock" ]
    /\ UNCHANGED << cpuVars, call, regVars, overflow_checks, unitVars, mutex, emulation_running, tasks >>

\* if let Ok(mut gba) = self.gba.lock(): a poisoned mutex is reported and left
ResetLocked ==
    /\ ui.at = "reset_lock"
    /\ CanLock
    /\ IF mutex.poisoned
       THEN ui' = [ ui EXCEPT !.at = "idle" ] /\ mutex' = mutex
       ELSE ui' = [ ui EXCEPT !.at = "resetting" ] /\ mutex' = [ mutex EXCEPT !.holder = TheUi ]
    /\ UNCHANGED << cpuVars, call, regVars, overflow_checks, unitVars, emulation_running, tasks >>

\* Gba::reset, which is not in the sources: the registers are zeroed, the CPSR is
\* set to System mode and ARM
Gba_reset(R) == [ DefaultRegisterBank EXCEPT !.cpsr.mode = "System" ]

\* gba.reset(); debugger_window.update_values(*gba.registers()); the guard is dropped
ResetDone ==
    /\ ui.at = "resetting"
    /\ registers' = Gba_reset(registers)
    /\ mutex' = Released
    /\ ui' = [ ui EXCEPT !.at = "idle" ]
    /\ UNCHANGED << fetched_instruction, decoded_instruction, bus, tickResult, lastExec,
                    nTicks, call, regVars, overflow_checks, unitVars, emulation_running, tasks >>

\* Message::EmulationStopped: the flag is cleared, then the update loop asks for the
\* lock to take the snapshot
EmulationStopped ==
    /\ UiIdle
    /\ ui.stopped > 0
    /\ emulation_running' = FALSE
    /\ ui' = [ ui EXCEPT !.stopped = @ - 1, !.at = "stopped_lock" ]
    /\ UNCHANGED << cpuVars, call, regVars, overflow_checks, unitVars, mutex, tasks >>

\* let gba = self.gba.lock().unwrap(): a poisoned mutex ends the update loop
SnapshotLocked ==
    /\ ui.at = "stopped_lock"
    /\ CanLock
    /\ IF mutex.poisoned
       THEN ui' = [ ui EXCEPT !.at = "crashed" ] /\ mutex' = mutex
       ELSE ui' = [ ui EXCEPT !.at = "snapshot" ] /\ mutex' = [ mutex EXCEPT !.holder = TheUi ]
    /\ UNCHANGED << cpuVars, call, regVars, overflow_checks, unitVars, emulation_running, tasks >>

\* debugger_window.update_values(*gba.registers()); the guard is dropped
SnapshotDone ==
    /\ ui.at = "snapshot"
    /\ mutex' = Released
    /\ ui' = [ ui EXCEPT !.at = "idle" ]
    /\ UNCHANGED << cpuVars, call, regVars, overflow_checks, unitVars, emulation_running, tasks >>

\* while emulation_running.load(Ordering::SeqCst): the run task goes for the lock, or
\* ends, which sends Message::EmulationStopped
RunTaskCheck(i) ==
    /\ tasks[i].kind = "run"
    /\ tasks[i].pc = "check"
    /\ IF emulation_running
       THEN tasks' = [ tasks EXCEPT ![i].pc = "lock" ] /\ ui' = ui
       ELSE tasks' = [ tasks EXCEPT ![i].pc = "done" ] /\ ui' = [ ui EXCEPT !.stopped = @ + 1 ]
    /\ UNCHANGED << cpuVars, call, regVars, overflow_checks, unitVars, mutex, emulation_running >>

\* gba.lock().unwrap(): the task holds the machine, or panics on a poisoned mutex
TaskLocked(i) ==
    /\ tasks[i].pc = "lock"
    /\ CanLock
    /\ IF mutex.poisoned
       THEN tasks' = [ tasks EXCEPT ![i].pc = "dead" ] /\ mutex' = mutex
       ELSE /\ tasks' = [ tasks EXCEPT ![i].pc = "ticking", ![i].ticks = 0 ]
            /\ mutex' = [ mutex EXCEPT !.holder = i ]
    /\ UNCHANGED << cpuVars, call, regVars, overflow_checks, unitVars, emulation_running, ui >>

\* .emulate(None): one turn of the loop of Gba::emulate.  Ok goes round again; Err
\* returns, the guard is dropped and the task ends (the run task by `break`), which
\* sends Message::EmulationStopped; a panic poisons the mutex and kills the task
TaskTick(i) ==
    /\ tasks[i].pc = "ticking"
    /\ Tick
    /\ LET counted == [ tasks EXCEPT
                          ![i].ticks = @ + 1,
                          ![i].after_clear = IF emulation_running THEN @ ELSE @ + 1 ]
       IN  CASE tickResult'.kind = "ok" ->
                  tasks' = counted /\ mutex' = mutex /\ ui' = ui
             [] tickResult'.kind = "err" ->
                  /\ tasks' = [ counted EXCEPT ![i].pc = "done" ]
                  /\ mutex' = Released
                  /\ ui' = [ ui EXCEPT !.stopped = @ + 1 ]
             [] tickResult'.kind = "panic" ->
                  /\ tasks' = [ counted EXCEPT ![i].pc = "dead" ]
                  /\ mutex' = [ holder |-> NoHolder, poisoned |-> TRUE ]
                  /\ ui' = ui
    /\ UNCHANGED << call, regVars, overflow_checks, unitVars, emulation_running >>

InitShell ==
    /\ registers = DefaultRegisterBank
    /\ fetched_instruction = None
    /\ decoded_instruction = None
    /\ \E program \in ShellPrograms :
         bus = [ bios |-> BiosImage(program), wram_on |-> [ o \in {} |-> 0 ],
                 wram_ext |-> [ o \in {} |-> 0 ], post_boot |-> FALSE,
                 interrupt_master_enable |-> FALSE ]
    /\ overflow_checks \in BOOLEAN
    /\ tickResult = [ kind |-> "none" ]
    /\ lastExec = NoExec
    /\ nTicks = 0
    /\ call = [ status |-> "idle", budget |-> None, cycles_done |-> 0 ]
    /\ nWrites = 0
    /\ lastWrite = NoWrite
    /\ InitShellIdle

NextShell ==
    \/ ChangeRunningState
    \/ StepEmulation
    \/ ResetEmulation
    \/ ResetLocked
    \/ ResetDone
    \/ EmulationStopped
    \/ SnapshotLocked
    \/ SnapshotDone
    \/ \E i \in DOMAIN tasks : RunTaskCheck(i)
    \/ \E i \in DOMAIN tasks : TaskLocked(i)
    \/ \E i \in DOMAIN tasks : TaskTick(i)

SpecShell == InitShell /\ [][NextShell]_vars

\* The tasks inside `gba.lock().unwrap().emulate(None)` and the update loop inside a
\* snapshot or a reset
InMachine ==
    { i \in DOMAIN tasks : tasks[i].pc = "ticking" }
        \cup (IF ui.at \in { "snapshot", "resetting" } THEN { TheUi } ELSE {})

\* C5: a Step request performs exactly one tick while it holds the lock.
C5_StepTicksOnce ==
    \A i \in DOMAIN tasks : tasks[i].kind = "step" => tasks[i].ticks <= 1

\* C6: once the running flag is clear, the run loop completes at most the tick in
\* flight before it stops.
C6_PauseStopsRun ==
    \A i \in DOMAIN tasks : tasks[i].kind = "run" => tasks[i].after_clear <= 1

\* C8: at most one of the tasks and the update loop is inside the machine (ticking,
\* taking a snapshot, resetting) at a time, and it is the holder of the mutex.
C8_OneHolder ==
    /\ Cardinality(InMachine) <= 1
    /\ \A a \in InMachine : mutex.holder = a

\* C8: a task holds the machine and has ticked while another task and the update
\* loop wait for the lock
C8_Witness ==
    /\ \E i \in DOMAIN tasks : tasks[i].pc = "ticking" /\ tasks[i].ticks >= 1
    /\ \E j \in DOMAIN tasks : tasks[j].pc = "lock"
    /\ ui.at = "reset_lock"

-----------------------------------------------------------------------------
(* The FIQ bank *)

\* C11: under FIQ every read of R8..R14 succeeds, and a write of one of them under
\* FIQ succeeds, is read back under FIQ, and changes neither what User reads for
\* that register nor any other FIQ register.
C11_FiqShadowed ==
    /\ \A i \in 8 .. 14 : ~IsPanic(reg_with_mode(registers, i, "Fiq"))
    /\ lastWrite.mode = "Fiq" /\ lastWrite.index \in 8 .. 14
           => /\ ~lastWrite.panicked
              /\ reg_with_mode(registers, lastWrite.index, "Fiq") = lastWrite.value
              /\ reg_with_mode(registers, lastWrite.index, "User") # lastWrite.value

-----------------------------------------------------------------------------
(* One block transfer executed directly on a prepared register bank and     *)
(* memory, as src/core/interpreter/arm/tests/transfer.rs does.              *)

\* The most registers a transfer lists: R0 .. R(MaxListed - 1)
MaxListed == 4

\* Every variable but the registers, the bus, the build and the probe, at rest
InitUnitIdle ==
    /\ fetched_instruction = None
    /\ decoded_instruction = None
    /\ tickResult = [ kind |-> "none" ]
    /\ lastExec = NoExec
    /\ nTicks = 0
    /\ call = [ status |-> "idle", budget |-> None, cycles_done |-> 0 ]
    /\ nWrites = 0
    /\ lastWrite = NoWrite
    /\ emulation_running = FALSE
    /\ mutex = [ holder |-> NoHolder, poisoned |-> FALSE ]
    /\ tasks = << >>
    /\ ui = [ at |-> "idle", clicks |-> 0, stopped |-> 0 ]

\* The register lists of the transfers: R0 .. R(k-1), and a list with a gap
BlockLists == { 0 .. (k - 1) : k \in 1 .. MaxListed } \cup { { 1, 3 } }

\* The base addresses, in the on-chip work RAM (0x3000000 + 4k)
BlockBases == { << 768, 4 * k >> : k \in 0 .. MaxListed }

\* for i in 0..n { *registers.reg_mut(i) = 10 * (i + 1) }; *registers.reg_mut(13) = b
BlockRegisters(b) ==
    [ DefaultRegisterBank EXCEPT
        !.reg = [ i \in 0 .. 15 |-> IF i < MaxListed THEN N32(10 * (i + 1))
                                    ELSE IF i = 13 THEN b ELSE Zero32 ] ]

\* The work RAM before a load: the word at offset 4k holds k + 1
BlockMemory(load) ==
    IF load THEN [ o \in { 4 * k : k \in 0 .. 2 * MaxListed } |-> (o \div 4) + 1 ]
    ELSE [ o \in {} |-> 0 ]

InitBlock ==
    /\ \E b \in BlockBases, list \in BlockLists, load, write_back, increment, pre_index \in BOOLEAN :
         /\ registers = BlockRegisters(b)
         /\ bus = [ bios |-> << >>, wram_on |-> BlockMemory(load),
                    wram_ext |-> [ o \in {} |-> 0 ], post_boot |-> FALSE,
                    interrupt_master_enable |-> FALSE ]
         /\ probe = [ op |-> "block", done |-> FALSE, kind |-> "", base |-> b,
                      ins |-> BlockDataTransferInstruction(
                                  13, list, load, write_back, increment, pre_index,
                                  FALSE, Cardinality(list)) ]
    /\ overflow_checks \in BOOLEAN
    /\ InitUnitIdle

\* instruction.execute(&mut registers, &mut bus)
BlockExecuted(res) ==
    /\ registers' = res.R
    /\ bus' = res.M
    /\ probe' = [ probe EXCEPT !.done = TRUE, !.kind = res.kind ]
    /\ UNCHANGED << fetched_instruction, decoded_instruction, tickResult, lastExec, nTicks,
                    call, regVars, overflow_checks, shellVars >>

BlockExecute ==
    /\ probe.op = "block"
    /\ ~probe.done
    /\ BlockExecuted(BlockDataTransferInstruction_execute(probe.ins, registers, bus))

NextBlock == BlockExecute

SpecBlock == InitBlock /\ [][NextBlock]_vars

\* The lowest address of a transfer of n registers from the base b, as the
\* specification gives it: b (IA), b + 4 (IB), b - 4(n - 1) (DA), b - 4n (DB)
BlockLowest(ins, b) ==
    LET n == ins.number_of_registers
    IN  CASE ins.increment /\ ~ins.pre_index -> b
          [] ins.increment /\ ins.pre_index -> Add32(b, N32(4))
          [] ~ins.increment /\ ~ins.pre_index -> Sub32(b, N32(4 * (n - 1)))
          [] ~ins.increment /\ ins.pre_index -> Sub32(b, N32(4 * n))

\* The place of register i in the list, counted from 0
BlockRank(ins, i) == Cardinality({ j \in ins.registers : j < i })

\* C12: a block store writes the listed registers in ascending register order to
\* consecutive ascending word addresses from the lowest address of its mode.
C12_StoreLayout ==
    probe.op = "block" /\ probe.done /\ ~probe.ins.load
        => /\ probe.kind = "ok"
           /\ \A i \in probe.ins.registers :
                  read_dword(bus, Add32(BlockLowest(probe.ins, probe.base),
                                        N32(4 * BlockRank(probe.ins, i))))
                      = [ ok |-> TRUE, v |-> N32(10 * (i + 1)) ]

\* C13: after a block transfer with write-back the base register holds b + 4n for
\* the incrementing modes and the lowest address for the decrementing ones,
\* b - 4(n - 1) for DA and b - 4n for DB.
C13_WriteBack ==
    probe.op = "block" /\ probe.done /\ probe.ins.write_back
        => /\ probe.kind = "ok"
           /\ reg(registers, 13)
                  = IF probe.ins.increment
                    THEN Add32(probe.base, N32(4 * probe.ins.number_of_registers))
                    ELSE BlockLowest(probe.ins, probe.base)

-----------------------------------------------------------------------------
(* The bus on its own: regions registered in any order over any ranges,     *)
(* each with a device of its own that counts its accesses and answers a     *)
(* read with its number; then one byte access.                              *)

\* The addresses of the accesses and of the ranges' ends: 0 .. MaxAddr
MaxAddr == 2

\* The most regions registered
MaxRegions == 2

NoAccess == [ kind |-> "none" ]

\* The machine of the unit runs that do not use it
InitUnitMachine ==
    /\ registers = DefaultRegisterBank
    /\ bus = [ bios |-> << >>, wram_on |-> [ o \in {} |-> 0 ],
               wram_ext |-> [ o \in {} |-> 0 ], post_boot |-> FALSE,
               interrupt_master_enable |-> FALSE ]
    /\ overflow_checks = FALSE

\* Bus::default()
InitBus ==
    /\ probe = [ op |-> "bus", regions |-> << >>,
                 accesses |-> [ d \in 1 .. MaxRegions |-> 0 ], last |-> NoAccess ]
    /\ InitUnitMachine
    /\ InitUnitIdle

\* The probe changes and nothing else does
ProbeBecomes(p) ==
    /\ probe' = p
    /\ UNCHANGED << cpuVars, call, regVars, overflow_checks, shellVars >>

\* Bus::register_region: self.regions.push(MemoryMapping { region, component })
register_region(first, last) ==
    /\ probe.op = "bus"
    /\ probe.last = NoAccess
    /\ Len(probe.regions) < MaxRegions
    /\ ProbeBecomes([ probe EXCEPT !.regions =
                        Append(@, [ first |-> N32(first), last |-> N32(last),
                                    device |-> Len(probe.regions) + 1 ]) ])

\* mapping.component.lock().unwrap().read_byte(address) / .write_byte(address, data)
\* of the i-th mapping: the device counts the access
ProbeAccessed(B, i) == [ B EXCEPT !.accesses[B.regions[i].device] = @ + 1 ]

\* Bus::read_byte on the regions of B, the mapping i being the one the scan found
ProbeReadAt(B, address, i) ==
    IF i = 0
    THEN [ B EXCEPT !.last = [ kind |-> "read", address |-> address,
                               result |-> [ ok |-> FALSE, err |-> InvalidRegion(address) ] ] ]
    ELSE [ ProbeAccessed(B, i) EXCEPT
             !.last = [ kind |-> "read", address |-> address,
                        result |-> [ ok |-> TRUE, v |-> B.regions[i].device ] ] ]

\* Bus::write_byte on the regions of B
ProbeWriteAt(B, address, data, i) ==
    IF i = 0
    THEN [ B EXCEPT !.last = [ kind |-> "write", address |-> address,
                               result |-> [ ok |-> FALSE, err |-> InvalidRegion(address) ] ] ]
    ELSE [ ProbeAccessed(B, i) EXCEPT
             !.last = [ kind |-> "write", address |-> address,
                        result |-> [ ok |-> TRUE ] ] ]

\* bus.read_byte(address)
BusReadByte(address) ==
    /\ probe.op = "bus"
    /\ probe.last = NoAccess
    /\ ProbeBecomes(ProbeReadAt(probe, address, FindRegionFrom(probe.regions, address, 1)))

\* bus.write_byte(address, data)
BusWriteByte(address, data) ==
    /\ probe.op = "bus"
    /\ probe.last = NoAccess
    /\ ProbeBecomes(ProbeWriteAt(probe, address, data,
                                 FindRegionFrom(probe.regions, address, 1)))

NextBus ==
    \/ \E first \in 0 .. MaxAddr, last \in 0 .. MaxAddr : register_region(first, last)
    \/ \E a \in 0 .. MaxAddr : BusReadByte(N32(a))
    \/ \E a \in 0 .. MaxAddr : BusWriteByte(N32(a), 7)

SpecBus == InitBus /\ [][NextBus]_vars

\* The registrations whose range contains the address of the access made
BusHits ==
    { i \in 1 .. Len(probe.regions) :
        /\ Le32(probe.regions[i].first, probe.last.address)
        /\ Le32(probe.last.address, probe.regions[i].last) }

\* The earliest of them
BusEarliest == CHOOSE i \in BusHits : \A j \in BusHits : i <= j

\* C14: a byte access is delivered to exactly one device, that of the
\* earliest-registered range containing the address, also when ranges overlap; no
\* other device is accessed.
C14_FirstMatchWins ==
    probe.op = "bus" /\ probe.last # NoAccess /\ BusHits # {}
        => /\ probe.last.result.ok
           /\ probe.accesses = [ d \in 1 .. MaxRegions |->
                                   IF d = probe.regions[BusEarliest].device THEN 1 ELSE 0 ]
           /\ probe.last.kind = "read"
                  => probe.last.result.v = probe.regions[BusEarliest].device

\* C14: an access was made at an address that two overlapping ranges contain, the
\* later-registered of them being the narrower, and the earlier one's device got it
C14_Witness ==
    /\ probe.op = "bus"
    /\ probe.last # NoAccess
    /\ Cardinality(BusHits) >= 2
    /\ \E j \in BusHits : /\ j > BusEarliest
                          /\ probe.regions[j].first = probe.regions[j].last
                          /\ probe.regions[BusEarliest].first # probe.regions[BusEarliest].last
    /\ probe.accesses[probe.regions[BusEarliest].device] = 1

\* C15: a byte access at an address no registered range contains returns
\* InvalidRegion carrying exactly that address, and no device is accessed.
C15_UnmappedFaults ==
    probe.op = "bus" /\ probe.last # NoAccess /\ BusHits = {}
        => /\ probe.last.result = [ ok |-> FALSE,
                                    err |-> << "InvalidRegion", probe.last.address >> ]
           /\ \A d \in 1 .. MaxRegions : probe.accesses[d] = 0

\* C15: a write was made at an address other than 0 that none of the two or more
\* registered ranges contains, and it returned the fault
C15_Witness ==
    /\ probe.op = "bus"
    /\ probe.last # NoAccess
    /\ probe.last.kind = "write"
    /\ probe.last.address # Zero32
    /\ Len(probe.regions) >= 2
    /\ BusHits = {}
    /\ ~probe.last.result.ok

-----------------------------------------------------------------------------
(* The bus of Gba::new accessed directly: a 32-bit write to the work RAM    *)
(* read back as a word and byte by byte, and a byte write to the BIOS.      *)

\* The accesses made in one run
MaxStores == 2

\* Work-RAM addresses: the first of the on-chip RAM, an odd one, the last two of its
\* 0x8000 bytes (the word wraps to offset 0), the last word of its range, and the
\* first and last words of the external RAM
RamAddresses ==
    { << 768, 0 >>, << 768, 1 >>, << 768, 32766 >>, << 1023, 65532 >>,
      << 2048, 0 >>, << 4095, 65532 >> }

RamValues ==
    { << 4660, 22136 >>, << 65535, 65535 >>, << 0, 255 >>, << 32768, 0 >>, << 0, 0 >> }

\* BIOS addresses: the first bytes and the last one (0x3FFF)
BiosAddresses == { << 0, 0 >>, << 0, 1 >>, << 0, 7 >>, << 0, 16383 >> }

InitMem ==
    /\ registers = DefaultRegisterBank
    /\ \E program \in ShellPrograms :
         bus = [ bios |-> BiosImage(program), wram_on |-> [ o \in {} |-> 0 ],
                 wram_ext |-> [ o \in {} |-> 0 ], post_boot |-> FALSE,
                 interrupt_master_enable |-> FALSE ]
    /\ overflow_checks = FALSE
    /\ probe = [ op |-> "mem", n |-> 0, last |-> NoAccess ]
    /\ InitUnitIdle

\* The bus and the probe change and nothing else does
MemBecomes(M, p) ==
    /\ bus' = M
    /\ probe' = p
    /\ UNCHANGED << registers, fetched_instruction, decoded_instruction, tickResult,
                    lastExec, nTicks, call, regVars, overflow_checks, shellVars >>

\* What bus.read_dword(address) and the four bus.read_byte(address + k) return on M
MemReadBack(M, address, value, written) ==
    [ kind |-> "dword", address |-> address, value |-> value, written |-> written.ok,
      read |-> read_dword(M, address),
      bytes |-> [ k \in 0 .. 3 |-> read_byte(M, Add32(address, N32(k))) ] ]

\* bus.write_dword(address, value), the bus being what it leaves
MemWritten(address, value, written) ==
    MemBecomes(written.M,
               [ probe EXCEPT !.n = @ + 1,
                              !.last = MemReadBack(written.M, address, value, written) ])

\* bus.write_dword(address, value); bus.read_dword(address); bus.read_byte(address + k)
MemWriteRead(address, value) ==
    /\ probe.op = "mem"
    /\ probe.n < MaxStores
    /\ MemWritten(address, value, write_dword(bus, address, value))

\* bus.write_byte(address, data) at a BIOS address, the bus being what it leaves
BiosWritten(address, data, written) ==
    MemBecomes(written.M,
               [ probe EXCEPT !.n = @ + 1,
                              !.last = [ kind |-> "bios", address |-> address,
                                         ok |-> written.ok,
                                         err |-> IF written.ok THEN None ELSE Some(written.err),
                                         before |-> bus.bios ] ])

BiosWriteByte(address, data) ==
    /\ probe.op = "mem"
    /\ probe.n < MaxStores
    /\ BiosWritten(address, data, write_byte(bus, address, data))

NextMem ==
    \/ \E address \in RamAddresses, value \in RamValues : MemWriteRead(address, value)
    \/ \E address \in BiosAddresses, data \in { 0, 255 } : BiosWriteByte(address, data)

SpecMem == InitMem /\ [][NextMem]_vars

\* C16: a 32-bit write of v at a work-RAM address a followed by a 32-bit read at a
\* returns v, and the bytes at a .. a+3 hold v's bytes, least significant at a.
C16_DwordRoundTrip ==
    probe.op = "mem" /\ probe.last.kind = "dword"
        => /\ probe.last.written
           /\ probe.last.read = [ ok |-> TRUE, v |-> probe.last.value ]
           /\ probe.last.bytes[0] = [ ok |-> TRUE, v |-> probe.last.value[2] % 256 ]
           /\ probe.last.bytes[1] = [ ok |-> TRUE, v |-> probe.last.value[2] \div 256 ]
           /\ probe.last.bytes[2] = [ ok |-> TRUE, v |-> probe.last.value[1] % 256 ]
           /\ probe.last.bytes[3] = [ ok |-> TRUE, v |-> probe.last.value[1] \div 256 ]

\* C16: 0x12345678 was written at 0x03007FFE, over a word already written, and read
\* back, its low byte 0x78 at the address
C16_Witness ==
    /\ probe.op = "mem"
    /\ probe.n = 2
    /\ probe.last.kind = "dword"
    /\ probe.last.address = << 768, 32766 >>
    /\ probe.last.value = << 4660, 22136 >>
    /\ probe.last.read = [ ok |-> TRUE, v |-> << 4660, 22136 >> ]
    /\ probe.last.bytes[0] = [ ok |-> TRUE, v |-> 120 ]

\* C17: a byte write routed to the BIOS returns InvalidRegion(address) and leaves
\* every BIOS byte as it was.
C17_BiosReadOnly ==
    probe.op = "mem" /\ probe.last.kind = "bios"
        => /\ ~probe.last.ok
           /\ probe.last.err = << << "InvalidRegion", probe.last.address >> >>
           /\ \A a \in (0 .. 4 * ProgWords) \cup { 16383 } :
                  read_byte(bus, << 0, a >>)
                      = [ ok |-> TRUE,
                          v |-> IF a + 1 \in DOMAIN probe.last.before
                                THEN probe.last.before[a + 1] ELSE 0 ]

\* C17: 0 was written over a BIOS byte that is not 0 and the write was rejected
C17_Witness ==
    /\ probe.op = "mem"
    /\ probe.last.kind = "bios"
    /\ ~probe.last.ok
    /\ probe.last.address = << 0, 7 >>
    /\ read_byte(bus, << 0, 7 >>).v # 0

-----------------------------------------------------------------------------
(* A status value packed and unpacked again *)

\* Every ProgramStatusRegister value
StatusValues ==
    [ signed : BOOLEAN, zero : BOOLEAN, carry : BOOLEAN, overflow : BOOLEAN,
      sticky_overflow : BOOLEAN, irq_disable : BOOLEAN, fiq_disable : BOOLEAN,
      instruction_mode : InstructionModes, mode : CpuModes ]

InitPsr ==
    /\ \E s \in StatusValues : probe = [ op |-> "psr", s |-> s, done |-> FALSE ]
    /\ InitUnitMachine
    /\ InitUnitIdle

\* ProgramStatusRegister::from_u32(packed), packed being s.to_u32()
PsrUnpacked(packed) ==
    ProbeBecomes([ op |-> "psr", s |-> probe.s, done |-> TRUE, packed |-> packed,
                   unpacked |-> Psr_from_u32(packed) ])

PsrRoundTrip ==
    /\ probe.op = "psr"
    /\ ~probe.done
    /\ PsrUnpacked(Psr_to_u32(probe.s))

NextPsr == PsrRoundTrip

SpecPsr == InitPsr /\ [][NextPsr]_vars

\* C18: for every status value s, from_u32(to_u32(s)) = s, field by field.
C18_PsrRoundTrip ==
    probe.op = "psr" /\ probe.done
        => \A f \in { "signed", "zero", "carry", "overflow", "sticky_overflow",
                      "irq_disable", "fiq_disable", "instruction_mode", "mode" } :
               probe.unpacked[f] = probe.s[f]

\* C18: a Thumb, IRQ-mode status with N, C and Q set and FIQs disabled was packed
\* as 0xA8000072 and unpacked to itself
C18_Witness ==
    /\ probe.op = "psr"
    /\ probe.done
    /\ probe.s = [ signed |-> TRUE, zero |-> FALSE, carry |-> TRUE, overflow |-> FALSE,
                   sticky_overflow |-> TRUE, irq_disable |-> FALSE, fiq_disable |-> TRUE,
                   instruction_mode |-> "Thumb", mode |-> "Irq" ]
    /\ probe.packed = << 43008, 114 >>
    /\ probe.unpacked = probe.s

-----------------------------------------------------------------------------
(* The condition check called for a condition code on given flags *)

InitCond ==
    /\ \E n, z, c, v \in BOOLEAN, condition \in 0 .. 15 :
         /\ registers = [ DefaultRegisterBank EXCEPT !.cpsr.signed = n, !.cpsr.zero = z,
                                                     !.cpsr.carry = c, !.cpsr.overflow = v ]
         /\ probe = [ op |-> "cond", condition |-> condition, done |-> FALSE ]
    /\ bus = [ bios |-> << >>, wram_on |-> [ o \in {} |-> 0 ],
               wram_ext |-> [ o \in {} |-> 0 ], post_boot |-> FALSE,
               interrupt_master_enable |-> FALSE ]
    /\ overflow_checks = FALSE
    /\ InitUnitIdle

\* self.check_condition(condition)
CheckCondition ==
    /\ probe.op = "cond"
    /\ ~probe.done
    /\ ProbeBecomes([ op |-> "cond", condition |-> probe.condition, done |-> TRUE,
                      passed |-> check_condition(registers, probe.condition) ])

NextCond == CheckCondition

SpecCond == InitCond /\ [][NextCond]_vars

\* The predicate the specification gives for a condition code, over the flags
ConditionTable(code, n, z, c, v) ==
    << z, ~z, c, ~c, n, ~n, v, ~v, c /\ ~z, ~c \/ z, n = v, n # v,
       ~z /\ (n = v), z \/ (n # v), TRUE, FALSE >>[code + 1]

\* C19: the condition check maps each of the 16 condition codes to its predicate
\* over N, Z, C, V, for all 16 flag combinations.
C19_ConditionCodes ==
    probe.op = "cond" /\ probe.done
        => probe.passed = ConditionTable(probe.condition, registers.cpsr.signed,
                                         registers.cpsr.zero, registers.cpsr.carry,
                                         registers.cpsr.overflow)

\* C19: LS was checked with C and Z both set and passed
C19_Witness ==
    /\ probe.op = "cond"
    /\ probe.done
    /\ probe.condition = 9
    /\ registers.cpsr.carry
    /\ registers.cpsr.zero
    /\ probe.passed

-----------------------------------------------------------------------------
(* The decoder, called on one fetched word in one instruction mode.        *)

\* The fetched words: the programs' words, the two ARM multiply formats, a
\* coprocessor word, and the Thumb formats of the software interrupt, the
\* unconditional branch, the multiple load/store, the load address, the
\* load/store with immediate offset and the ALU multiply, and a Thumb word
\* of no format
DecodeWords ==
    Alphabet \cup
    { << 57344, 144 >>,     \* E0000090  mul r0, r0, r0
      << 57472, 144 >>,     \* E0800090  umull r0, r0, r0, r0
      << 60928, 0 >>,       \* EE000000  cdp
      << 0, 57088 >>,       \* Thumb DF00 swi 0
      << 0, 57344 >>,       \* Thumb E000 b
      << 0, 59536 >>,       \* Thumb E890 undefined
      << 0, 49152 >>,       \* Thumb C000 stmia r0!, {}
      << 0, 40960 >>,       \* Thumb A000 add r0, pc, #0
      << 0, 24576 >>,       \* Thumb 6000 str r0, [r0, #0]
      << 0, 17216 >>,       \* Thumb 4340 mul r0, r0
      << 0, 16384 >> }      \* Thumb 4000 and r0, r0

\* The locations the words were fetched from
DecodeLocations == { Zero32, N32(4) }

\* An interpreter with a word in its fetched slot and nothing decoded
InitDecode ==
    /\ \E mode \in { "Arm", "Thumb" }, carry \in BOOLEAN :
         registers = [ DefaultRegisterBank EXCEPT !.cpsr.instruction_mode = mode,
                                                  !.cpsr.carry = carry ]
    /\ \E w \in DecodeWords, location \in DecodeLocations :
         fetched_instruction = Some(<< w, location >>)
    /\ decoded_instruction = None
    /\ bus = [ bios |-> << >>, wram_on |-> [ o \in {} |-> 0 ],
               wram_ext |-> [ o \in {} |-> 0 ], post_boot |-> FALSE,
               interrupt_master_enable |-> FALSE ]
    /\ overflow_checks = FALSE
    /\ tickResult = [ kind |-> "none" ]
    /\ lastExec = NoExec
    /\ nTicks = 0
    /\ call = [ status |-> "idle", budget |-> None, cycles_done |-> 0 ]
    /\ nWrites = 0
    /\ lastWrite = NoWrite
    /\ emulation_running = FALSE
    /\ mutex = [ holder |-> NoHolder, poisoned |-> FALSE ]
    /\ tasks = << >>
    /\ ui = [ at |-> "idle", clicks |-> 0, stopped |-> 0 ]
    /\ probe = [ op |-> "decode", done |-> FALSE ]

\* The interpreter after self.decode() returned res, and what it returned
Decoded(res) ==
    /\ registers' = res.I.registers
    /\ fetched_instruction' = res.I.fetched
    /\ decoded_instruction' = res.I.decoded
    /\ probe' = [ op |-> "decode", done |-> TRUE, kind |-> res.kind,
                  err |-> IF res.kind = "err" THEN res.err ELSE None ]
    /\ UNCHANGED << bus, tickResult, lastExec, nTicks, call, regVars,
                    overflow_checks, shellVars >>

\* self.decode()
Decode ==
    /\ probe.op = "decode"
    /\ ~probe.done
    /\ Decoded(Interpreter_decode(TheInterpreter))

NextDecode == Decode

SpecDecode == InitDecode /\ [][NextDecode]_vars

\* The word the decoder works on: the fetched word in ARM mode, its low 16
\* bits in Thumb mode
DecodeRaw ==
    IF registers.cpsr.instruction_mode = "Arm" THEN fetched_instruction[1][1]
    ELSE << 0, Lo(fetched_instruction[1][1]) >>

\* C20: decoding a fetched word, in ARM mode and in Thumb mode, either fills
\* the decoded slot with an instruction or returns OpcodeNotImplemented(raw)
\* with the raw word; it has no other outcome.
C20_DecodeTwoOutcomes ==
    probe.op = "decode" /\ probe.done
        => \/ probe.kind = "ok" /\ decoded_instruction # None
           \/ probe.kind = "err" /\ probe.err = OpcodeNotImplemented(DecodeRaw)
              /\ decoded_instruction = None

-----------------------------------------------------------------------------
(* One instruction run through the pipeline: the machine starts at the     *)
(* reset vector with chosen registers, a short program in the BIOS image   *)
(* and chosen bytes in the on-board work RAM, and is ticked until the      *)
(* program has been fetched, decoded and executed.                         *)

\* Ticks of such a run: three bring the first word to its execute step.
ExecTicks == 4

\* E1A00000  mov r0, r0
Nop == << 57760, 0 >>

\* The register bank R with the processor mode and the flags N, Z, C, V set
WithStatus(R, mode, n, z, c, v) ==
    [ R EXCEPT !.cpsr.mode = mode, !.cpsr.signed = n, !.cpsr.zero = z,
               !.cpsr.carry = c, !.cpsr.overflow = v ]

\* The machine of Gba::new with the registers R, the program at address 0 and
\* the bytes ram in the on-board work RAM
InitExec(R, program, ram) ==
    /\ registers = R
    /\ bus = [ bios |-> BiosImage(program), wram_on |-> ram,
               wram_ext |-> [ o \in {} |-> 0 ], post_boot |-> FALSE,
               interrupt_master_enable |-> FALSE ]
    /\ overflow_checks \in BOOLEAN
    /\ probe = [ op |-> "exec", done |-> FALSE ]
    /\ InitUnitIdle

\* What the execute step of a tick saw and left, e being what
\* Interpreter::execute returned on the interpreter I and the bus M
ExecProbe(I, M, e) ==
    [ op |-> "exec", done |-> TRUE,
      before |-> I.registers, memory |-> M, operation |-> I.decoded,
      kind |-> e.kind, cycles |-> IF e.kind = "ok" THEN e.cycles ELSE 0,
      after |-> e.I.registers, fetched |-> e.I.fetched, decoded |-> e.I.decoded,
      written |-> e.M ]

\* The tick whose execute step returned e
ExecTickOf(e) ==
    /\ TickTaken(TickDecode(e))
    /\ probe' = ExecProbe(TheInterpreter, bus, e)
    /\ UNCHANGED << call, regVars, overflow_checks, shellVars >>

\* self.cpu.tick(&mut self.bus), while the ticks before it returned Ok
ExecTick ==
    /\ probe.op = "exec"
    /\ nTicks < ExecTicks
    /\ tickResult.kind \in { "none", "ok" }
    /\ ExecTickOf(Interpreter_execute(TheInterpreter, bus))

NextExec == ExecTick

\* The execute step of the last tick ran an instruction of that kind
Executed(kind) ==
    /\ probe.op = "exec"
    /\ probe.done
    /\ lastExec.taken
    /\ lastExec.kind = kind

-----------------------------------------------------------------------------
(* The software interrupt, from every processor mode.                      *)

\* EF000012  swi 0x12, at address 0 and at address 4
SwiPrograms == { << << 61184, 18 >> >>, << Nop, << 61184, 18 >> >> }

InitSwi ==
    \E mode \in CpuModes, n, c, i \in BOOLEAN, program \in SwiPrograms :
        InitExec([ WithStatus(DefaultRegisterBank, mode, n, FALSE, c, FALSE)
                       EXCEPT !.cpsr.irq_disable = i ],
                 program, [ o \in {} |-> 0 ])

SpecSwi == InitSwi /\ [][NextExec]_vars

\* C21: a SWI at address A, executed in any processor mode, leaves A + 4 in
\* R14 of the Supervisor bank and the CPSR at entry in SPSR_svc, sets
\* CPSR.mode to Supervisor and CPSR.irq_disable, sets the PC to 0x8 and
\* flushes the pipeline.
C21_SoftwareInterrupt ==
    Executed("SoftwareInterrupt")
        => /\ probe.kind = "ok"
           /\ probe.after.svc_reg[1] = Add32(lastExec.location, N32(4))
           /\ probe.after.spsr[SpsrIndex("Supervisor")] = probe.before.cpsr
           /\ probe.after.cpsr.mode = "Supervisor"
           /\ probe.after.cpsr.irq_disable
           /\ pc(probe.after) = N32(8)
           /\ lastExec.flushed

-----------------------------------------------------------------------------
(* Branch and branch with link.                                            *)

\* The 24-bit offset fields of the branches: the ends of the positive and of
\* the negative range, and the fields whose bits 21 .. 23 differ
BranchOffsets == { 0, 1, 2097151, 2097152, 8388607, 8388608, 16777214, 16777215 }

\* cond = AL, 101, L, offset
BranchWord(link, o) == << (IF link THEN 60160 ELSE 59904) + (o \div Half), o % Half >>

InitBranch ==
    \E mode \in CpuModes, link \in BOOLEAN, o \in BranchOffsets, first \in BOOLEAN :
        InitExec(WithStatus(DefaultRegisterBank, mode, FALSE, FALSE, FALSE, FALSE),
                 IF first THEN << BranchWord(link, o) >> ELSE << Nop, BranchWord(link, o) >>,
                 [ o2 \in {} |-> 0 ])

SpecBranch == InitBranch /\ [][NextExec]_vars

\* The offset field of a branch word
BranchOffsetField(opcode) == (Hi(opcode) % 256) * Half + Lo(opcode)

\* 4 * signext24(o) modulo 2^32
BranchDisplacement(o) ==
    IF o >= 8388608 THEN Add32(N32(4 * o), << 64512, 0 >>) ELSE N32(4 * o)

\* C22: B or BL at address A with the offset field o sets the PC to
\* A + 8 + 4 * signext24(o) modulo 2^32, and BL also sets R14 to A + 4.
C22_BranchTarget ==
    Executed("Branch")
        => /\ probe.kind = "ok"
           /\ pc(probe.after)
                = Add32(Add32(lastExec.location, N32(8)),
                        BranchDisplacement(BranchOffsetField(probe.operation[1].opcode)))
           /\ BitSet(probe.operation[1].opcode, 24)
                => reg(probe.after, 14) = Add32(lastExec.location, N32(4))

-----------------------------------------------------------------------------
(* Branch and exchange.                                                    *)

\* The modes whose bank holds every register of a run (the FIQ bank has no
\* slot for R14)
ExecModes == CpuModes \ { "Fiq" }

\* The register bank R with the register of that index set, in the mode of R
WithReg(R, index, value) == reg_mut(R, index, value).R

\* The targets: 0x1001, 0x1000, 0x03000001, 0x03000002, 0xFFFFFFFF
ExchangeTargets ==
    { << 0, 4097 >>, << 0, 4096 >>, << 768, 1 >>, << 768, 2 >>, << 65535, 65535 >> }

\* E12FFF1m  bx rm
ExchangeWord(m) == << 57647, 65296 + m >>

\* bx r0, bx r14 and bx r15, at address 0 and at address 4
InitExchange ==
    \E mode \in ExecModes, m \in { 0, 14, 15 }, target \in ExchangeTargets, first \in BOOLEAN :
        InitExec(IF m = 15 THEN WithStatus(DefaultRegisterBank, mode, FALSE, FALSE, FALSE, FALSE)
                 ELSE WithReg(WithStatus(DefaultRegisterBank, mode, FALSE, FALSE, FALSE, FALSE),
                              m, target),
                 IF first THEN << ExchangeWord(m) >> ELSE << Nop, ExchangeWord(m) >>,
                 [ o \in {} |-> 0 ])

SpecExchange == InitExchange /\ [][NextExec]_vars

-----------------------------------------------------------------------------
(* Instructions whose condition fails.                                     *)

\* The word w with the condition field cond
WithCondition(w, cond) == << (Hi(w) % 4096) + cond * 4096, Lo(w) >>

\* One ARM word of each instruction the executor dispatches on
ConditionalWords ==
    { << 58336, 0 >>,       \* E3E00000  mvn r0, #0
      << 58001, 4097 >>,    \* E2911001  adds r1, r1, #1
      << 58752, 4096 >>,    \* E5801000  str r1, [r0]
      << 58768, 8192 >>,    \* E5902000  ldr r2, [r0]
      << 59552, 6 >>,       \* E8A00006  stmia r0!, {r1, r2}
      << 59904, 2 >>,       \* EA000002  b
      << 60160, 2 >>,       \* EB000002  bl
      << 57647, 65297 >>,   \* E12FFF11  bx r1
      << 61184, 18 >>,      \* EF000012  swi 0x12
      << 57641, 61441 >>,   \* E129F001  msr cpsr_fc, r1
      << 57615, 12288 >>,   \* E10F3000  mrs r3, cpsr
      << 57600, 8337 >> }   \* E1002091  swp r2, r1, [r0]

\* EQ, NE, GE and the code 15
ConditionCodes == { 0, 1, 10, 15 }

\* The Thumb conditional branches beq, bne and bge
ConditionalHalfwords == { << 0, 53249 >>, << 0, 53505 >>, << 0, 55809 >> }

\* R0 = 0x03000000 (work RAM), R1 = 0x80000005, and a word in the work RAM
ConditionalRegisters(mode, n, z) ==
    WithReg(WithReg(WithStatus(DefaultRegisterBank, mode, n, z, FALSE, FALSE),
                    0, << 768, 0 >>),
            1, << 32768, 5 >>)

InitConditional ==
    \E mode \in { "User", "Supervisor" }, n, z \in BOOLEAN :
        \/ \E w \in ConditionalWords, cond \in ConditionCodes :
               InitExec(ConditionalRegisters(mode, n, z), << WithCondition(w, cond) >>,
                        [ o \in { 0 } |-> 7 ])
        \/ \E h \in ConditionalHalfwords :
               InitExec([ ConditionalRegisters(mode, n, z)
                              EXCEPT !.cpsr.instruction_mode = "Thumb" ],
                        << h >>, [ o \in { 0 } |-> 7 ])

SpecConditional == InitConditional /\ [][NextExec]_vars

\* The execute step of the last tick had a decoded instruction whose condition
\* was false against the flags
Skipped ==
    /\ probe.op = "exec"
    /\ probe.done
    /\ probe.operation # None
    /\ ~check_condition(probe.before, probe.operation[1].condition)

\* C24: when the condition of the decoded instruction is false, the execute
\* step changes no register, no status register and no memory byte, signals
\* no flush and reports 1 cycle, and the decode step of the tick replaces the
\* skipped instruction.
C24_SkippedInstruction ==
    Skipped
        => /\ probe.kind = "ok"
           /\ probe.cycles = 1
           /\ probe.after = probe.before
           /\ probe.written = probe.memory
           /\ ~lastExec.flushed
           /\ probe.decoded = probe.operation
           /\ probe.fetched # None
           /\ tickResult.kind = "ok"
                => /\ decoded_instruction # None
                   /\ decoded_instruction # probe.operation
                   /\ decoded_instruction[1].location = probe.fetched[1][2]

\* C24: stmne r0!, {r1, r2} was skipped with Z set, and the next word took
\* its place in the decoded slot
C24_Witness ==
    /\ Skipped
    /\ probe.operation[1].instruction.kind = "BlockDataTransfer"
    /\ probe.before.cpsr.zero
    /\ tickResult.kind = "ok"
    /\ decoded_instruction[1].location = N32(4)

-----------------------------------------------------------------------------
(* Data processing: the 16 ARM operations with and without S, on an        *)
(* immediate and on a shifted register, and the Thumb instructions that    *)
(* lower to them.                                                          *)

\* The second operands of the ARM words: #3, #5, and r2, lsr #1
AluOperands == { << TRUE, 3 >>, << TRUE, 5 >>, << FALSE, 162 >> }

\* cond = AL, 00, I, opcode, S, Rn = r1, Rd = r0, operand
AluWord(opcode, s, operand) ==
    << 57344 + (IF operand[1] THEN 512 ELSE 0) + opcode * 32 + (IF s THEN 16 ELSE 0) + 1,
       operand[2] >>

\* Thumb: mov r0, #3; cmp r1, #5; cmp r1, #3; add r1, #3; sub r1, #5;
\* add r0, r1, r2; and r1, r2; tst r1, r2; cmp r1, r2; cmn r1, r2
AluHalfwords ==
    { << 0, 8195 >>, << 0, 10501 >>, << 0, 10499 >>, << 0, 12547 >>, << 0, 14597 >>,
      << 0, 6280 >>, << 0, 16401 >>, << 0, 16913 >>, << 0, 17041 >>, << 0, 17105 >> }

\* The values of R1, the first operand: 5, 3 and 0xFFFFFFFF
AluSources == { << 0, 5 >>, << 0, 3 >>, << 65535, 65535 >> }

\* R1 is the first operand and R2 = 3
AluRegisters(source, c, v) ==
    WithReg(WithReg(WithStatus(DefaultRegisterBank, "User", FALSE, FALSE, c, v),
                    1, source),
            2, << 0, 3 >>)

InitAlu ==
    \E source \in AluSources, c, v \in BOOLEAN :
        \/ \E opcode \in 0 .. 15, s \in BOOLEAN, operand \in AluOperands :
               InitExec(AluRegisters(source, c, v), << AluWord(opcode, s, operand) >>,
                        [ o \in {} |-> 0 ])
        \/ \E h \in AluHalfwords :
               InitExec([ AluRegisters(source, c, v) EXCEPT !.cpsr.instruction_mode = "Thumb" ],
                        << h >>, [ o \in {} |-> 0 ])

SpecAlu == InitAlu /\ [][NextExec]_vars

\* The data-processing instruction the last execute step completed
AluDone ==
    /\ Executed("DataProcessing")
    /\ probe.kind = "ok"

\* Its first operand, the value of Rn
AluOp1 == reg(probe.before, probe.operation[1].instruction.source_register_index)

\* Its second operand
AluOp2 == Operand_value(probe.operation[1].instruction.operand, probe.before).value

\* The carry out of bit 31 of a + b + cin
CarryOut(a, b, cin) ==
    Hi(a) + Hi(b) + (IF Lo(a) + Lo(b) + cin >= Half THEN 1 ELSE 0) >= Half

\* The carry the instruction set defines for the arithmetic operations: the
\* carry out of the addition, and of a + NOT b + 1 (or + C) for a - b
AluCarry(operation, a, b, c) ==
    CASE operation \in { "Add", "CompareNegate" } -> CarryOut(a, b, 0)
      [] operation = "AddWithCarry" -> CarryOut(a, b, B2N(c))
      [] operation \in { "Subtract", "Compare" } -> CarryOut(a, Not32(b), 1)
      [] operation = "SubtractWithCarry" -> CarryOut(a, Not32(b), B2N(c))
      [] operation = "ReverseSubtract" -> CarryOut(b, Not32(a), 1)
      [] operation = "ReverseSubtractWithCarry" -> CarryOut(b, Not32(a), B2N(c))

ArithmeticOperations ==
    { "Add", "AddWithCarry", "CompareNegate", "Subtract", "SubtractWithCarry",
      "ReverseSubtract", "ReverseSubtractWithCarry", "Compare" }

\* C25: after a data-processing instruction that updates the flags, the carry
\* flag is the unsigned carry-out of the addition for ADD, ADC and CMN and
\* the negation of the borrow for SUB, SBC, RSB, RSC and CMP.
C25_ArithmeticCarry ==
    /\ AluDone
    /\ probe.operation[1].instruction.update_conditions
    /\ probe.operation[1].instruction.operation \in ArithmeticOperations
    => probe.after.cpsr.carry
         = AluCarry(probe.operation[1].instruction.operation, AluOp1, AluOp2,
                    probe.before.cpsr.carry)


\* TST, TEQ, CMP and CMN
CompareOperations == { "Test", "TestEqual", "Compare", "CompareNegate" }

\* The result of TST, TEQ, CMP or CMN on a and b
CompareResult(operation, a, b) ==
    CASE operation = "Test" -> And32(a, b)
      [] operation = "TestEqual" -> Xor32(a, b)
      [] operation = "Compare" -> Sub32(a, b)
      [] operation = "CompareNegate" -> Add32(a, b)

\* C26: TST, TEQ, CMP and CMN never write a register and always update the
\* flags from their result, in every decoded form including the Thumb
\* instructions that lower to them; every other data-processing operation
\* changes the flags only when its S bit is set.
C26_CompareSetsFlags ==
    AluDone
        => IF probe.operation[1].instruction.operation \in CompareOperations
           THEN /\ probe.after.reg = probe.before.reg
                /\ probe.after.cpsr.zero
                     = (CompareResult(probe.operation[1].instruction.operation,
                                      AluOp1, AluOp2) = Zero32)
                /\ probe.after.cpsr.signed
                     = BitSet(CompareResult(probe.operation[1].instruction.operation,
                                            AluOp1, AluOp2), 31)
           ELSE (probe.before.cpsr.instruction_mode = "Arm"
                   /\ ~BitSet(probe.operation[1].opcode, 20))
                    => probe.after.cpsr = probe.before.cpsr


\* AND, EOR, TST, TEQ, ORR, MOV, BIC and MVN
LogicalOperations ==
    { "And", "ExclusiveOr", "Test", "TestEqual", "Or", "Move", "AndNot", "MoveNegate" }

\* The carry out of the barrel shifter for the second operand of the ARM word
\* opcode: bit 31 of a rotated immediate (the carry flag when the rotation is
\* 0), the last bit shifted out of a shifted register
ShifterCarryOut(opcode, R) ==
    IF BitSet(opcode, 25)
    THEN (IF Field(opcode, 8, 4) = 0 THEN R.cpsr.carry
          ELSE BitSet(rotated_immediate(opcode), 31))
    ELSE Shift_shift(Shift_from_opcode(opcode), R).carry

\* C27: after a logical data-processing operation that updates the flags, the
\* carry flag is the shifter carry-out of the second operand and the overflow
\* flag has the value it had before the instruction.
C27_LogicalCarry ==
    /\ AluDone
    /\ probe.before.cpsr.instruction_mode = "Arm"
    /\ BitSet(probe.operation[1].opcode, 20)
    /\ probe.operation[1].instruction.operation \in LogicalOperations
    => /\ probe.after.cpsr.carry = ShifterCarryOut(probe.operation[1].opcode, probe.before)
       /\ probe.after.cpsr.overflow = probe.before.cpsr.overflow

-----------------------------------------------------------------------------
(* Single data transfer: LDR, STR and their byte forms, pre- and           *)
(* post-indexed, up and down, with and without write-back, at the four     *)
(* alignments of the address.                                              *)

\* cond = AL, 01, I = 0, P, U, B, W, L, Rn = r0, Rd, the offset #4
TransferWord(p, u, b, w, l, rd) ==
    << 58368 + B2N(p) * 256 + B2N(u) * 128 + B2N(b) * 64 + B2N(w) * 32 + B2N(l) * 16,
       rd * 4096 + 4 >>

\* Bytes 0x0C .. 0x1B of the on-board work RAM, all different
TransferMemory == [ o \in 12 .. 27 |-> 100 + o ]

\* R0 = 0x03000010 + k is the base and R2 = 0xCAFE0002
TransferRegisters(mode, k) ==
    WithReg(WithReg(WithStatus(DefaultRegisterBank, mode, FALSE, FALSE, FALSE, FALSE),
                    0, << 768, 16 + k >>),
            2, << 51966, 2 >>)

InitTransfer ==
    \E mode \in { "User", "Supervisor" }, k \in 0 .. 3, p, u, b, w, l \in BOOLEAN,
       rd \in { 0, 2 } :
        InitExec(TransferRegisters(mode, k), << TransferWord(p, u, b, w, l, rd) >>,
                 TransferMemory)

SpecTransfer == InitTransfer /\ [][NextExec]_vars

\* The single data transfer the last execute step completed
TransferDone ==
    /\ Executed("SingleDataTransfer")
    /\ probe.kind = "ok"

\* Its base register's value before it, the base plus or minus its offset,
\* and the address it transfers at
TransferBase == reg(probe.before, Field(probe.operation[1].opcode, 16, 4))

TransferOffsetBase ==
    IF BitSet(probe.operation[1].opcode, 23)
    THEN Add32(TransferBase, N32(Field(probe.operation[1].opcode, 0, 12)))
    ELSE Sub32(TransferBase, N32(Field(probe.operation[1].opcode, 0, 12)))

TransferAddress ==
    IF BitSet(probe.operation[1].opcode, 24) THEN TransferOffsetBase ELSE TransferBase

\* The memory word at the aligned address a & ~3, rotated right by 8 * (a & 3)
RotatedWordAt(M, a) ==
    RotateRight32(read_dword(M, << Hi(a), Lo(a) - (Lo(a) % 4) >>).v, 8 * (Lo(a) % 4))

\* C28: a word load from an address a with (a & 3) # 0 puts into the
\* destination register the memory word at a & ~3 rotated right by
\* 8 * (a & 3) bits.
C28_UnalignedLoad ==
    /\ TransferDone
    /\ BitSet(probe.operation[1].opcode, 20)
    /\ ~BitSet(probe.operation[1].opcode, 22)
    /\ Field(probe.operation[1].opcode, 12, 4) # Field(probe.operation[1].opcode, 16, 4)
    /\ Lo(TransferAddress) % 4 # 0
    => reg(probe.after, Field(probe.operation[1].opcode, 12, 4))
         = RotatedWordAt(probe.memory, TransferAddress)


\* The value its load reads at the transfer address: the byte, or the word
\* as execute hands it to the destination register
TransferLoaded ==
    IF BitSet(probe.operation[1].opcode, 22)
    THEN ByteAsWord(read_byte(probe.memory, TransferAddress)).v
    ELSE IF Lo(TransferAddress) % 4 = 2
    THEN RotateLeft32(read_dword(probe.memory, TransferAddress).v, 16)
    ELSE read_dword(probe.memory, TransferAddress).v

\* C29: after a post-indexed transfer, or one with the write-back bit set,
\* the base register holds base +/- offset, except that after a load whose
\* destination is the base register it holds the loaded value.
C29_WriteBack ==
    /\ TransferDone
    /\ \/ ~BitSet(probe.operation[1].opcode, 24)
       \/ BitSet(probe.operation[1].opcode, 21)
    => reg(probe.after, Field(probe.operation[1].opcode, 16, 4))
         = IF /\ BitSet(probe.operation[1].opcode, 20)
              /\ Field(probe.operation[1].opcode, 12, 4) = Field(probe.operation[1].opcode, 16, 4)
           THEN TransferLoaded
           ELSE TransferOffsetBase

-----------------------------------------------------------------------------
(* Block stores whose base register is in the register list: STMIA, STMIB,  *)
(* STMDA and STMDB of lists among R0 .. R2, with and without write-back.    *)

\* The registers a store may list and use as its base: R0 .. R2
StoreListed == 0 .. 2

\* cond = AL, 100, P, U, S = 0, W, L = 0, Rn, the register list
StoreWord(p, u, w, rn, list) ==
    << 59392 + B2N(p) * 256 + B2N(u) * 128 + B2N(w) * 32 + rn,
       B2N(0 \in list) + 2 * B2N(1 \in list) + 4 * B2N(2 \in list) >>

\* The base register holds 0x03000020 and every other Ri holds 0xA5A50001 + i
StoreRegisters(mode, rn) ==
    [ WithStatus(DefaultRegisterBank, mode, FALSE, FALSE, FALSE, FALSE) EXCEPT
        !.reg = [ i \in 0 .. 15 |-> IF i = rn THEN << 768, 32 >>
                                    ELSE IF i \in StoreListed THEN << 42405, i + 1 >>
                                    ELSE @[i] ] ]

InitBaseStore ==
    \E mode \in { "User", "Supervisor" }, p, u, w \in BOOLEAN, rn \in StoreListed,
       list \in (SUBSET StoreListed) \ { {} } :
        InitExec(StoreRegisters(mode, rn), << StoreWord(p, u, w, rn, list) >>,
                 [ o \in {} |-> 0 ])

SpecBaseStore == InitBaseStore /\ [][NextExec]_vars

\* The block store with write-back the last execute step completed, its base
\* register being in its list
BaseStored ==
    /\ Executed("BlockDataTransfer")
    /\ probe.kind = "ok"
    /\ ~probe.operation[1].instruction.load
    /\ probe.operation[1].instruction.write_back
    /\ probe.operation[1].instruction.base_register_index
         \in probe.operation[1].instruction.registers

\* The word the store leaves in the slot of register i: the slots go up from the
\* lowest address of the mode, one per listed register in ascending order
StoredFor(i) ==
    read_dword(probe.written,
               Add32(BlockLowest(probe.operation[1].instruction,
                                 reg(probe.before,
                                     probe.operation[1].instruction.base_register_index)),
                     N32(4 * BlockRank(probe.operation[1].instruction, i)))).v

\* C30: a block store with write-back whose list contains the base register
\* stores for it the base's original value if the base is the lowest-numbered
\* register of the list, and the updated (written-back) base value otherwise.
C30_BaseInList ==
    BaseStored
        => StoredFor(probe.operation[1].instruction.base_register_index)
             = IF \A j \in probe.operation[1].instruction.registers :
                      probe.operation[1].instruction.base_register_index <= j
               THEN reg(probe.before, probe.operation[1].instruction.base_register_index)
               ELSE reg(probe.after, probe.operation[1].instruction.base_register_index)

-----------------------------------------------------------------------------
(* MSR: the register form, to the CPSR and to the SPSR of the mode, with    *)
(* each of the two field masks set and clear.                               *)

\* cond = AL, 00010, P, 10, the field mask with f at bit 19 and c at bit 16,
\* 1111, 00000000, Rm = r0
MsrWord(use_spsr, f, c) ==
    << 57632 + B2N(use_spsr) * 64 + B2N(f) * 8 + B2N(c), 61440 >>

\* The operands: flag bytes with and without bit 27 and the reserved bits, and
\* control bytes naming User, Supervisor with I and F, Thumb with IRQ, and no mode
MsrOperands ==
    { << hi, lo >> : hi \in { 0, 2048, 61440, 43263 }, lo \in { 16, 211, 50, 65280 } }

\* A status register of the mode with N = C = n, Z = V = ~n, Q = q and I = i
MsrStatus(mode, n, q, i) ==
    [ DefaultPsr EXCEPT !.mode = mode, !.signed = n, !.zero = ~n, !.carry = n,
                        !.overflow = ~n, !.sticky_overflow = q, !.irq_disable = i ]

\* The CPSR, and every SPSR holding the opposite flags
MsrRegisters(mode, n, q, i, operand) ==
    WithReg([ DefaultRegisterBank EXCEPT
                !.cpsr = MsrStatus(mode, n, q, i),
                !.spsr = [ k \in 0 .. 4 |-> MsrStatus(@[k].mode, ~n, ~q, ~i) ] ],
            0, operand)

InitMsr ==
    \E mode \in { "User", "Supervisor", "Irq" }, n, q, i, use_spsr, f, c \in BOOLEAN,
       operand \in MsrOperands :
        InitExec(MsrRegisters(mode, n, q, i, operand), << MsrWord(use_spsr, f, c) >>,
                 [ o \in {} |-> 0 ])

SpecMsr == InitMsr /\ [][NextExec]_vars

\* The MSR the last execute step completed, in a mode that has the target
MsrDone ==
    /\ Executed("PsrTransferMsr")
    /\ probe.kind = "ok"
    /\ probe.operation[1].instruction.use_spsr => probe.before.cpsr.mode \in ExceptionModes

\* The target before and after it, R being the registers
MsrTarget(R) ==
    IF probe.operation[1].instruction.use_spsr
    THEN R.spsr[SpsrIndex(probe.before.cpsr.mode)] ELSE R.cpsr

\* The flag byte of a status register p equals bits 31 .. 27 of the word w
FlagsAre(p, w) ==
    /\ p.signed = BitSet(w, 31)
    /\ p.zero = BitSet(w, 30)
    /\ p.carry = BitSet(w, 29)
    /\ p.overflow = BitSet(w, 28)
    /\ p.sticky_overflow = BitSet(w, 27)

\* The control byte of p equals bits 7 .. 0 of w
ControlIs(p, w) ==
    /\ p.irq_disable = BitSet(w, 7)
    /\ p.fiq_disable = BitSet(w, 6)
    /\ (p.instruction_mode = "Thumb") = BitSet(w, 5)
    /\ CpuModeBits(p.mode) = Lo(w) % 32

\* C31: MSR replaces the flag byte of the target by the operand's when
\* write_flags is set and the control byte when write_control is set; a field
\* whose mask bit is clear keeps its value, and no general register and no
\* other status register changes.
C31_MsrFields ==
    MsrDone
        => /\ FlagsAre(MsrTarget(probe.after),
                       IF probe.operation[1].instruction.write_flags
                       THEN reg(probe.before, 0)
                       ELSE Psr_to_u32(MsrTarget(probe.before)))
           /\ ControlIs(MsrTarget(probe.after),
                        IF probe.operation[1].instruction.write_control
                        THEN reg(probe.before, 0)
                        ELSE Psr_to_u32(MsrTarget(probe.before)))
           /\ probe.after
                = IF probe.operation[1].instruction.use_spsr
                  THEN [ probe.before EXCEPT !.spsr[SpsrIndex(probe.before.cpsr.mode)] =
                           MsrTarget(probe.after) ]
                  ELSE [ probe.before EXCEPT !.cpsr = probe.after.cpsr ]

-----------------------------------------------------------------------------
(* SWP and SWPB with every choice of Rd and Rm among R0 .. R2, R0 being the *)
(* base register.                                                           *)

\* cond = AL, 00010, B, 00, Rn = r0, Rd, 0000 1001, Rm
SwapWord(b, rd, rm) == << 57600 + B2N(b) * 64, rd * 4096 + 144 + rm >>

\* R0 = 0x03000010 + k is the address, R1 = 0xCAFE0102 and R2 = 0x11112233
SwapRegisters(mode, k) ==
    WithReg(WithReg(WithReg(WithStatus(DefaultRegisterBank, mode, FALSE, FALSE, FALSE, FALSE),
                            0, << 768, 16 + k >>),
                    1, << 51966, 258 >>),
            2, << 4369, 8755 >>)

InitSwap ==
    \E mode \in { "User", "Supervisor" }, k \in 0 .. 5, b \in BOOLEAN, rd, rm \in 0 .. 2 :
        InitExec(SwapRegisters(mode, k), << SwapWord(b, rd, rm) >>, TransferMemory)

SpecSwap == InitSwap /\ [][NextExec]_vars

\* The swap the last execute step completed
SwapDone ==
    /\ Executed("SingleDataSwap")
    /\ probe.kind = "ok"

\* Byte i of the word w, counted from the least significant
ByteOf(w, i) ==
    CASE i = 0 -> Lo(w) % 256
      [] i = 1 -> Lo(w) \div 256
      [] i = 2 -> Hi(w) % 256
      [] i = 3 -> Hi(w) \div 256

\* The byte of the work RAM at offset o of 0x03000000
RamByte(M, o) == read_byte(M, << 768, o >>).v

\* The word of the four bytes from offset o
RamWord(M, o) ==
    << RamByte(M, o + 3) * 256 + RamByte(M, o + 2), RamByte(M, o + 1) * 256 + RamByte(M, o) >>

\* C32: SWP reads the old value at the address in Rn, then writes the value
\* of Rm there, then sets Rd to the old value, whatever registers Rd and Rm
\* are; SWPB does so with the single byte at the address and sets Rd to the
\* old byte zero-extended.
C32_SwapOrder ==
    SwapDone
        => LET ins == probe.operation[1].instruction
               at == Lo(reg(probe.before, ins.base_register_index))
               source == reg(probe.before, ins.source_register_index)
               width == IF ins.byte_transfer THEN 1 ELSE 4
           IN  /\ reg(probe.after, ins.destination_register_index)
                    = IF ins.byte_transfer THEN << 0, RamByte(probe.memory, at) >>
                      ELSE RamWord(probe.memory, at)
               /\ \A o \in 8 .. 31 :
                      RamByte(probe.written, o)
                        = IF o \in at .. (at + width - 1) THEN ByteOf(source, o - at)
                          ELSE RamByte(probe.memory, o)
               /\ \A i \in 0 .. 15 :
                      i # ins.destination_register_index
                          => reg(probe.after, i) = reg(probe.before, i)
               /\ probe.after.cpsr = probe.before.cpsr

\* A word swap whose destination is its source has exchanged register and memory
C32_Witness ==
    /\ SwapDone
    /\ ~probe.operation[1].instruction.byte_transfer
    /\ probe.operation[1].instruction.destination_register_index = 1
    /\ probe.operation[1].instruction.source_register_index = 1
    /\ reg(probe.before, 0) = << 768, 16 >>
    /\ reg(probe.after, 1) = << 30582, 30068 >>
    /\ RamWord(probe.written, 16) = << 51966, 258 >>

-----------------------------------------------------------------------------
(* Thumb long branch with link: each of its two halves at address 0, with   *)
(* offsets of both signs and a link register of several values.             *)

\* The 11-bit offsets: 0, 1, the largest non-negative, the smallest negative, -1
LongBranchOffsets == { 0, 1, 1023, 1024, 2047 }

\* 1111, H, offset11
LongBranchHalfword(h, o) == << 0, 61440 + B2N(h) * 2048 + o >>

\* The link registers the second half finds: 0x00000100, 0x03000000, 0xFFFFF004
LongBranchLinks == { << 0, 256 >>, << 768, 0 >>, << 65535, 61444 >> }

InitLongBranch ==
    \E mode \in { "User", "Supervisor" }, h \in BOOLEAN, o \in LongBranchOffsets,
       lr \in LongBranchLinks :
        InitExec(WithReg([ WithStatus(DefaultRegisterBank, mode, FALSE, FALSE, FALSE, FALSE)
                             EXCEPT !.cpsr.instruction_mode = "Thumb" ],
                         14, lr),
                 << LongBranchHalfword(h, o) >>, [ a \in {} |-> 0 ])

SpecLongBranch == InitLongBranch /\ [][NextExec]_vars

\* offset11 << 12 sign-extended from bit 22
LongBranchHigh(o) ==
    IF o >= 1024 THEN << 65408 + (o \div 16), (o % 16) * 4096 >>
    ELSE << o \div 16, (o % 16) * 4096 >>

\* C33: the first half at A sets LR = (A + 4) + signext(offset11 << 12); the
\* second half at B sets PC = LR + (offset11 << 1) and LR = (B + 2) | 1 and
\* flushes the pipeline.
C33_LongBranchWithLink ==
    Executed("LongBranchWithLink")
        => /\ probe.kind = "ok"
           /\ IF probe.operation[1].instruction.h
              THEN /\ reg(probe.after, 15)
                        = Add32(reg(probe.before, 14),
                                N32(2 * probe.operation[1].instruction.offset))
                   /\ reg(probe.after, 14)
                        = Or32(Add32(probe.operation[1].location, N32(2)), N32(1))
                   /\ lastExec.flushed
              ELSE reg(probe.after, 14)
                     = Add32(Add32(probe.operation[1].location, N32(4)),
                             LongBranchHigh(probe.operation[1].instruction.offset))

-----------------------------------------------------------------------------
(* The barrel shifter on its own: each shift type, in the immediate form    *)
(* and in the register form, on given operands, amounts and carry.          *)

\* The operands: 0, 1, 3, 0x12345678, 0x80000000, 0x80000001, 0xFFFFFFFF
ShiftOperands ==
    { << 0, 0 >>, << 0, 1 >>, << 0, 3 >>, << 4660, 22136 >>, << 32768, 0 >>,
      << 32768, 1 >>, << 65535, 65535 >> }

\* The amounts an opcode encodes in bits 11-7, and those a register supplies
ImmediateAmounts == { 0, 1, 2, 16, 31 }

RegisterAmounts == { 0, 1, 31, 32, 33, 64, 255 }

\* The shifts: Rm = r0 shifted by the immediate amount, or by the amount in r1
ShiftForms ==
    { [ t |-> "Immediate", base_register |-> 0, shift_amount |-> n, shift_type |-> st ] :
        n \in ImmediateAmounts,
        st \in { "LogicalLeft", "LogicalRight", "ArithmeticRight", "RotateRight" } }
    \cup
    { [ t |-> "Register", base_register |-> 0, shift_register |-> 1, shift_type |-> st ] :
        st \in { "LogicalLeft", "LogicalRight", "ArithmeticRight", "RotateRight" } }

InitShift ==
    /\ \E shift \in ShiftForms, operand \in ShiftOperands, n \in RegisterAmounts,
          c \in BOOLEAN :
         /\ registers = WithReg(WithReg([ DefaultRegisterBank EXCEPT !.cpsr.carry = c ],
                                        0, operand),
                                1, N32(n))
         /\ probe = [ op |-> "shift", shift |-> shift, done |-> FALSE ]
    /\ bus = [ bios |-> << >>, wram_on |-> [ o \in {} |-> 0 ],
               wram_ext |-> [ o \in {} |-> 0 ], post_boot |-> FALSE,
               interrupt_master_enable |-> FALSE ]
    /\ overflow_checks \in BOOLEAN
    /\ InitUnitIdle

\* shift.shift(&registers)
ShiftApplied ==
    /\ probe.op = "shift"
    /\ ~probe.done
    /\ ProbeBecomes([ op |-> "shift", shift |-> probe.shift, done |-> TRUE,
                      result |-> Shift_shift(probe.shift, registers) ])

NextShift == ShiftApplied

SpecShift == InitShift /\ [][NextShift]_vars

\* The shift of the given type has been applied
Shifted(shift_type) ==
    /\ probe.op = "shift"
    /\ probe.done
    /\ probe.shift.shift_type = shift_type

\* Its amount: the encoded one, or the one in r1
ShiftedBy ==
    IF probe.shift.t = "Immediate" THEN probe.shift.shift_amount ELSE Lo(reg(registers, 1))

\* LSL of x by n with the carry c, as the specification gives it
LslOf(x, n, c) ==
    CASE n = 0 -> << x, c >>
      [] n \in 1 .. 31 -> << Shl32(x, n), BitSet(x, 32 - n) >>
      [] n = 32 -> << Zero32, BitSet(x, 0) >>
      [] n > 32 -> << Zero32, FALSE >>

\* C34: LSL of x by n with input carry c returns (x, c) for n = 0,
\* (x << n, bit 32 - n of x) for 1 <= n <= 31, (0, bit 0 of x) for n = 32 and
\* (0, 0) for n > 32, for every amount a register can supply.
C34_LogicalLeft ==
    Shifted("LogicalLeft")
        => /\ ~probe.result.panic
           /\ << probe.result.value, probe.result.carry >>
                = LslOf(reg(registers, 0), ShiftedBy, registers.cpsr.carry)

\* C35: in the immediate form with the encoded amount 0, LSR returns 0 and ASR
\* returns 32 copies of bit 31 of the operand, both with the carry bit 31 of
\* the operand.
C35_RightShiftBy32 ==
    /\ Shifted("LogicalRight") \/ Shifted("ArithmeticRight")
    /\ probe.shift.t = "Immediate"
    /\ probe.shift.shift_amount = 0
    => /\ ~probe.result.panic
       /\ probe.result.value
            = IF probe.shift.shift_type = "ArithmeticRight" /\ BitSet(reg(registers, 0), 31)
              THEN << 65535, 65535 >> ELSE Zero32
       /\ probe.result.carry = BitSet(reg(registers, 0), 31)

\* C36: ROR in the immediate form with the encoded amount 0 returns
\* (x >> 1) | (c << 31) with the carry bit 0 of x; with an amount n # 0 it
\* returns x rotated right by n mod 32.
C36_RotateRight ==
    Shifted("RotateRight") /\ probe.shift.t = "Immediate"
        => /\ ~probe.result.panic
           /\ IF probe.shift.shift_amount = 0
              THEN /\ probe.result.value
                        = Or32(Shr32(reg(registers, 0), 1),
                               IF registers.cpsr.carry THEN << 32768, 0 >> ELSE Zero32)
                   /\ probe.result.carry = BitSet(reg(registers, 0), 0)
              ELSE probe.result.value
                     = RotateRight32(reg(registers, 0), probe.shift.shift_amount % 32)

-----------------------------------------------------------------------------
(* Operands shifted by an immediate amount: a first instruction that may    *)
(* change the base register or the carry, then a MOV of the shifted         *)
(* register, both run through the pipeline.                                 *)

\* The first instructions: mov r0, r0; mov r1, #5; adds r2, r2, r2
OperandPreludes == { Nop, << 58272, 4101 >>, << 57490, 8194 >> }

\* The base registers of the shifted operand
OperandBases == { 1, 2, 15 }

\* The shifts: LSL #0, LSL #1, LSL #4, LSR #1, ASR #4, ROR #0 (RRX), ROR #4,
\* as << type, amount >>
OperandShifts ==
    { << 0, 0 >>, << 0, 1 >>, << 0, 4 >>, << 1, 1 >>, << 2, 4 >>, << 3, 0 >>, << 3, 4 >> }

\* mov r0, Rm, <shift> #n: cond = AL, 000, MOV, S = 0, Rd = r0, n, type, 0, Rm
ShiftedMove(rm, sh) == << 57760, sh[2] * 128 + sh[1] * 32 + rm >>

\* R1 = 0x80000003 and R2 = 0xC0000001
OperandRegisters(mode, c) ==
    WithReg(WithReg(WithStatus(DefaultRegisterBank, mode, FALSE, FALSE, c, FALSE),
                    1, << 32768, 3 >>),
            2, << 49152, 1 >>)

InitOperand ==
    \E mode \in { "User", "Supervisor" }, c \in BOOLEAN, first \in OperandPreludes,
       rm \in OperandBases, sh \in OperandShifts :
        InitExec(OperandRegisters(mode, c), << first, ShiftedMove(rm, sh) >>,
                 [ o \in {} |-> 0 ])

SpecOperand == InitOperand /\ [][NextExec]_vars

\* The last execute step ran a data-processing instruction whose operand is a
\* register shifted by an immediate amount
ShiftedOperandUsed ==
    /\ Executed("DataProcessing")
    /\ ~BitSet(probe.operation[1].opcode, 25)
    /\ ~BitSet(probe.operation[1].opcode, 4)

\* C37: the operand value the decoder pre-computes for a shift by an immediate
\* amount equals the value of the same shift evaluated on the registers when
\* the instruction executes, for every base register, R15 included.
C37_DecodeTimeOperand ==
    ShiftedOperandUsed
        => probe.operation[1].instruction.operand
             = Immediate(Shift_shift(Shift_from_opcode(probe.operation[1].opcode),
                                     probe.before).value)

-----------------------------------------------------------------------------
(* Thumb conditional branches at address 0, over condition codes, offsets   *)
(* of both signs and all flags.                                             *)

\* EQ, NE, HI, LS, GE, LT
ThumbBranchConditions == { 0, 1, 8, 9, 10, 11 }

\* The 8-bit offsets: 0, 1, 2, 127, -128, -2, -1
ThumbBranchOffsets == { 0, 1, 2, 127, 128, 254, 255 }

\* 1101, cond, offset8
ThumbBranchHalfword(cond, o) == << 0, 53248 + cond * 256 + o >>

InitThumbBranch ==
    \E n, z, c, v \in BOOLEAN, cond \in ThumbBranchConditions, o \in ThumbBranchOffsets :
        InitExec([ WithStatus(DefaultRegisterBank, "User", n, z, c, v)
                     EXCEPT !.cpsr.instruction_mode = "Thumb" ],
                 << ThumbBranchHalfword(cond, o) >>, [ a \in {} |-> 0 ])

SpecThumbBranch == InitThumbBranch /\ [][NextExec]_vars

\* The execute step of the last tick had a Thumb conditional branch
ThumbBranchAtExecute ==
    /\ probe.op = "exec"
    /\ probe.done
    /\ probe.operation # None
    /\ probe.before.cpsr.instruction_mode = "Thumb"
    /\ probe.operation[1].instruction.kind = "Branch"

\* 2 * signext8(o) as a word
ThumbBranchDisplacement(o) ==
    IF o >= 128 THEN << 65535, 65536 - 2 * (256 - o) >> ELSE N32(2 * o)

\* C38: a Thumb conditional branch at A takes its condition from bits 11-8;
\* when the condition passes the PC becomes (A + 4) + 2 * signext8(offset8),
\* an even address, and when it fails the PC is left to advance sequentially.
C38_ThumbConditionalBranch ==
    ThumbBranchAtExecute
        => /\ probe.operation[1].condition = Field(probe.operation[1].opcode, 8, 4)
           /\ IF ConditionTable(Field(probe.operation[1].opcode, 8, 4),
                                probe.before.cpsr.signed, probe.before.cpsr.zero,
                                probe.before.cpsr.carry, probe.before.cpsr.overflow)
              THEN /\ probe.kind = "ok"
                   /\ reg(probe.after, 15)
                        = Add32(Add32(probe.operation[1].location, N32(4)),
                                ThumbBranchDisplacement(
                                    Field(probe.operation[1].opcode, 0, 8)))
                   /\ Lo(reg(probe.after, 15)) % 2 = 0
              ELSE /\ reg(probe.after, 15) = reg(probe.before, 15)
                   /\ ~lastExec.flushed

-----------------------------------------------------------------------------
(* The Thumb decoder on every Hi-register operation and BX.                 *)

\* 010001, op, H1, Rs (bits 6-3, its high bit being H2), Rd (bits 2-0)
HiRegHalfword(op, h1, rs, rd) == << 0, 17408 + op * 256 + B2N(h1) * 128 + rs * 8 + rd >>

InitHiReg ==
    /\ \E op \in 0 .. 3, h1 \in BOOLEAN, rs \in 0 .. 15, rd \in 0 .. 7 :
         probe = [ op |-> "hireg", opcode |-> HiRegHalfword(op, h1, rs, rd), done |-> FALSE ]
    /\ InitUnitMachine
    /\ InitUnitIdle

\* The instruction of Interpreter::decode_thumb for the halfword
HiRegDecode ==
    /\ probe.op = "hireg"
    /\ ~probe.done
    /\ ProbeBecomes([ op |-> "hireg", opcode |-> probe.opcode, done |-> TRUE,
                      instruction |-> ThumbInstruction(probe.opcode) ])

NextHiReg == HiRegDecode

SpecHiReg == InitHiReg /\ [][NextHiReg]_vars

\* The register the halfword names as Rd: bits 2-0, plus 8 when H1 is set
HiRegRd(opcode) == Field(opcode, 0, 3) + 8 * Field(opcode, 7, 1)

\* C39: a Hi-register operation or BX is decoded with Rs = bits 6-3 and
\* Rd = bits 2-0 plus 8 when H1 (bit 7) is set, so that every register
\* R0 .. R15 can be the destination.
C39_HiRegisterOperands ==
    probe.op = "hireg" /\ probe.done
        => IF Field(probe.opcode, 8, 2) = 3
           THEN /\ probe.instruction.kind = "BranchAndExchange"
                /\ probe.instruction.target_register = Field(probe.opcode, 3, 4)
           ELSE /\ probe.instruction.kind = "DataProcessing"
                /\ probe.instruction.source_register_index = Field(probe.opcode, 3, 4)
                /\ probe.instruction.operand = Register(HiRegRd(probe.opcode))
                /\ Field(probe.opcode, 8, 2) # 1
                     => probe.instruction.destination_register_index
                          = Some(HiRegRd(probe.opcode))


\* ---------------------------------------------------------------------------
\* The shell and the machine lock (C40)
\* ---------------------------------------------------------------------------

\* A task is inside `gba.lock().unwrap().emulate(None)`
TaskTicking == \E i \in DOMAIN tasks : tasks[i].pc = "ticking"

\* The update loop waits in self.gba.lock() of Message::ResetEmulation or of
\* Message::EmulationStopped
UiWaitsForLock == ui.at \in { "reset_lock", "stopped_lock" }

\* This step is the update loop taking a Message::StepEmulation or a
\* Message::ResetEmulation
StepOrResetAccepted ==
    \/ /\ Len(tasks') = Len(tasks) + 1
       /\ tasks'[Len(tasks')].kind = "step"
    \/ /\ ui.at = "idle"
       /\ ui'.at = "reset_lock"

\* C40: the shell never blocks forever on the machine lock: Step and Reset are
\* accepted only while no emulation task is executing ticks, and once the running
\* flag is clear and the update loop waits for the machine mutex (for a Reset or
\* for the snapshot of a stop), a tick of the task that holds it is its last: the
\* mutex is free after it, so that the waiting lock is acquired.
C40_ShellNeverBlocks ==
    [][ /\ StepOrResetAccepted => ~TaskTicking
        /\ ( /\ UiWaitsForLock
             /\ ~emulation_running
             /\ nTicks' = nTicks + 1 ) => mutex'.holder = NoHolder ]_vars

=============================================================================
